---- MODULE Spec2Model ----
(***************************************************************************)
(* Model of mcp/claim_date_tools.py: the three date/time tools              *)
(* calculate_timeline_duration, calculate_business_days and                 *)
(* check_policy_compliance, together with the parts of datetime.strptime,   *)
(* str.strip, int() and timedelta arithmetic that the tools rely on.        *)
(*                                                                          *)
(* A Python string is a sequence of one-character strings.  A Python value  *)
(* is a record [t, s, n]: t is the type tag, s the characters of a str, n    *)
(* the number of an int/bool, the tenths of a float, the length of a list.  *)
(* A returned string is kept as the record of its template (kind) and of    *)
(* the values substituted into it.                                          *)
(*                                                                          *)
(* Spec is one call of one tool, taken as a whole.  SpecThreads is several  *)
(* callers at once, each call advancing statement by statement through     *)
(* the loop of calculate_business_days on the local variables of its own    *)
(* frame.                                                                   *)
(***************************************************************************)
EXTENDS Integers, Sequences, FiniteSets, TLC

VARIABLES call, pc, result, threads, locals, earlier,
          agent, global_retriever_instance, calls, chroma

vars == <<call, pc, result, threads, locals, earlier,
          agent, global_retriever_instance, calls, chroma>>

(***************************************************************************)
(* Python values                                                            *)
(***************************************************************************)
PyNone == [t |-> "none", s |-> <<>>, n |-> 0]
PyStr(chars) == [t |-> "str", s |-> chars, n |-> 0]
PyInt(i) == [t |-> "int", s |-> <<>>, n |-> i]
PyBool(b) == [t |-> "bool", s |-> <<>>, n |-> IF b THEN 1 ELSE 0]
PyFloat(tenths) == [t |-> "float", s |-> <<>>, n |-> tenths]
PyInf == [t |-> "inf", s |-> <<>>, n |-> 0]
PyNaN == [t |-> "nan", s |-> <<>>, n |-> 0]
PyList(len) == [t |-> "list", s |-> <<>>, n |-> len]

\* Truthy with a str of whitespace only taken for an empty one, as
\* `not x.strip()` would.
Truthy_NotBlank(x) ==
    CASE x.t = "none" -> FALSE
      [] x.t = "str" -> \E j \in 1..Len(x.s) : x.s[j] \notin {" ", "\t"}
      [] x.t \in {"int", "bool", "float", "list"} -> x.n # 0
      [] OTHER -> TRUE

\* `not x` is False exactly for the values below (truth value testing).
Truthy(x) ==
    CASE x.t = "none" -> FALSE
      [] x.t = "str" -> x.s # <<>>
      [] x.t \in {"int", "bool", "float", "list"} -> x.n # 0
      [] OTHER -> TRUE

(***************************************************************************)
(* Characters, str.strip and int(str)                                       *)
(***************************************************************************)
Digits == <<"0", "1", "2", "3", "4", "5", "6", "7", "8", "9">>
DigitSet == {Digits[i] : i \in 1..10}
Whitespace == {" ", "\t"}

DigitVal(c) == (CHOOSE i \in 1..10 : Digits[i] = c) - 1

DigitRange(lo, hi) == {Digits[i + 1] : i \in lo..hi}

RECURSIVE LStrip(_)
LStrip(chars) ==
    IF chars # <<>> /\ Head(chars) \in Whitespace THEN LStrip(Tail(chars)) ELSE chars

RECURSIVE RStrip(_)
RStrip(chars) ==
    IF chars # <<>> /\ chars[Len(chars)] \in Whitespace
    THEN RStrip(SubSeq(chars, 1, Len(chars) - 1))
    ELSE chars

\* str.strip(): leading and trailing whitespace removed.
strip(chars) == RStrip(LStrip(chars))

\* Decimal value of a run of digit characters.
RECURSIVE DecValue(_)
DecValue(chars) ==
    IF chars = <<>> THEN 0
    ELSE 10 * DecValue(SubSeq(chars, 1, Len(chars) - 1)) + DigitVal(chars[Len(chars)])

\* The characters of a group of the strptime regex, read with int(): int()
\* skips surrounding whitespace (the %d alternative " [1-9]").
GroupValue(chars) == DecValue(strip(chars))

(***************************************************************************)
(* datetime.strptime: the format is compiled to a regular expression, one  *)
(* item per directive or literal; each directive is an ordered list of      *)
(* alternatives, an alternative a list of character classes.  A blank of    *)
(* the format compiles to \s+ .                                             *)
(***************************************************************************)
Lit(c) == [ws |-> FALSE, alts |-> << <<{c}>> >>]
WsPlus == [ws |-> TRUE, alts |-> <<>>]
GroupY == [ws |-> FALSE, alts |-> << <<DigitSet, DigitSet, DigitSet, DigitSet>> >>]
Groupm ==
    [ws |-> FALSE,
     alts |-> << <<{"1"}, DigitRange(0, 2)>>, <<{"0"}, DigitRange(1, 9)>>,
                 <<DigitRange(1, 9)>> >>]
Groupd ==
    [ws |-> FALSE,
     alts |-> << <<{"3"}, DigitRange(0, 1)>>, <<DigitRange(1, 2), DigitSet>>,
                 <<{"0"}, DigitRange(1, 9)>>, <<DigitRange(1, 9)>>,
                 <<{" "}, DigitRange(1, 9)>> >>]
GroupH ==
    [ws |-> FALSE,
     alts |-> << <<{"2"}, DigitRange(0, 3)>>, <<DigitRange(0, 1), DigitSet>>,
                 <<DigitSet>> >>]
GroupM == [ws |-> FALSE, alts |-> << <<DigitRange(0, 5), DigitSet>>, <<DigitSet>> >>]
GroupS ==
    [ws |-> FALSE,
     alts |-> << <<{"6"}, DigitRange(0, 1)>>, <<DigitRange(0, 5), DigitSet>>,
                 <<DigitSet>> >>]

\* "%Y-%m-%d"
DateFormat == <<GroupY, Lit("-"), Groupm, Lit("-"), Groupd>>
\* "%Y-%m-%d %H:%M:%S"
DateTimeFormat == DateFormat \o <<WsPlus, GroupH, Lit(":"), GroupM, Lit(":"), GroupS>>

\* The alternative alt matches the characters of s that follow offset off.
AltMatches(alt, s, off) ==
    /\ off + Len(alt) <= Len(s)
    /\ \A j \in 1..Len(alt) : s[off + j] \in alt[j]

\* Length of the run of whitespace that follows offset off.
RECURSIVE WsRun(_, _)
WsRun(s, off) ==
    IF off < Len(s) /\ s[off + 1] \in Whitespace THEN 1 + WsRun(s, off + 1) ELSE 0

\* The lengths an item can consume at off, in the order the regex engine
\* tries them: alternatives left to right, \s+ longest first.
Candidates(item, s, off) ==
    IF item.ws
    THEN [j \in 1..WsRun(s, off) |-> WsRun(s, off) + 1 - j]
    ELSE LET hit == SelectSeq([j \in 1..Len(item.alts) |-> j],
                              LAMBDA j : AltMatches(item.alts[j], s, off))
         IN [j \in 1..Len(hit) |-> Len(item.alts[hit[j]])]

NoMatch == <<-1>>

\* re.match of the items k.. of pat at offset off, with backtracking: the
\* end offset of every item, or NoMatch.
RECURSIVE Match(_, _, _, _)
RECURSIVE TryFrom(_, _, _, _, _, _)
TryFrom(pat, k, s, off, cands, j) ==
    IF j > Len(cands) THEN NoMatch
    ELSE LET rest == Match(pat, k + 1, s, off + cands[j])
         IN IF rest = NoMatch
            THEN TryFrom(pat, k, s, off, cands, j + 1)
            ELSE <<off + cands[j]>> \o rest

Match(pat, k, s, off) ==
    IF k > Len(pat) THEN <<>>
    ELSE TryFrom(pat, k, s, off, Candidates(pat[k], s, off), 1)

(***************************************************************************)
(* The proleptic Gregorian calendar of datetime                             *)
(***************************************************************************)
MINYEAR == 1
MAXYEAR == 9999

\* is_leap by the Julian rule: every fourth year.
is_leap_Julian(year) == year % 4 = 0

is_leap(year) == year % 4 = 0 /\ (year % 100 # 0 \/ year % 400 = 0)

days_in_month(year, month) ==
    IF month = 2 THEN (IF is_leap(year) THEN 29 ELSE 28)
    ELSE IF month \in {4, 6, 9, 11} THEN 30 ELSE 31

RECURSIVE days_before_month(_, _)
days_before_month(year, month) ==
    IF month = 1 THEN 0
    ELSE days_before_month(year, month - 1) + days_in_month(year, month - 1)

days_before_year(year) ==
    LET y == year - 1 IN y * 365 + (y \div 4) - (y \div 100) + (y \div 400)

\* date.toordinal(): 0001-01-01 is day 1.
ymd2ord(year, month, day) ==
    days_before_year(year) + days_before_month(year, month) + day

\* The last representable day, date.max = 9999-12-31.
MaxOrdinal == ymd2ord(MAXYEAR, 12, 31)

\* date.weekday(): Monday = 0 ... Sunday = 6.
weekday(ord) == (ord + 6) % 7

\* A failed parse (ValueError), and a parsed datetime: the ordinal of its
\* date and the second of its day.
ParseError == [ok |-> FALSE, ord |-> 0, sec |-> 0]

\* datetime.strptime(data, format): ValueError when the regex does not match,
\* when unconverted data remains, or when the fields are no real date/time.
strptime(data, format) ==
    LET m == Match(format, 1, data, 0)
        Group(i) == SubSeq(data, (IF i = 1 THEN 0 ELSE m[i - 1]) + 1, m[i])
        year == GroupValue(Group(1))
        month == GroupValue(Group(3))
        day == GroupValue(Group(5))
        timed == Len(format) > 5
        hour == IF timed THEN GroupValue(Group(7)) ELSE 0
        minute == IF timed THEN GroupValue(Group(9)) ELSE 0
        second == IF timed THEN GroupValue(Group(11)) ELSE 0
    IN  IF m = NoMatch THEN ParseError
        ELSE IF m[Len(m)] # Len(data) THEN ParseError
        ELSE IF year < MINYEAR \/ day > days_in_month(year, month) THEN ParseError
        ELSE IF second > 59 THEN ParseError
        ELSE [ok |-> TRUE,
              ord |-> ymd2ord(year, month, day),
              sec |-> hour * 3600 + minute * 60 + second]

(***************************************************************************)
(* timedelta and float formatting                                           *)
(***************************************************************************)
\* end_dt - start_dt: a timedelta normalised to 0 <= seconds < 86400.
timedelta_sub(end_dt, start_dt) ==
    LET d == end_dt.ord - start_dt.ord
        s == end_dt.sec - start_dt.sec
    IN  IF s < 0 THEN [days |-> d - 1, seconds |-> s + 86400]
        ELSE [days |-> d, seconds |-> s]

\* timedelta.total_seconds(); the tools parse no fraction of a second, so
\* the float is a whole number.
total_seconds_of(duration) == duration.days * 86400 + duration.seconds

\* end_dt < start_dt
dt_less(end_dt, start_dt) ==
    \/ end_dt.ord < start_dt.ord
    \/ end_dt.ord = start_dt.ord /\ end_dt.sec < start_dt.sec

RECURSIVE PowMod(_, _, _)
PowMod(base, exp, mod) ==
    IF exp = 0 THEN 1 % mod ELSE (base * PowMod(base, exp - 1, mod)) % mod

\* floor(log2(num / den)) for num, den > 0.
RECURSIVE FloorLog2(_, _)
FloorLog2(num, den) ==
    IF num < den THEN FloorLog2(2 * num, den) - 1
    ELSE IF num >= 2 * den THEN FloorLog2(num, 2 * den) + 1
    ELSE 0

\* The double nearest to n/200 (n odd) lies above n/200: with e the binary
\* exponent of n/200, the 53-bit significand is n * 2^(52-e) / 200 rounded to
\* an integer, and it is rounded up when the dropped fraction exceeds 1/2.
DoubleAbove(n) ==
    LET e == FloorLog2(n, 200)
    IN  (n * PowMod(2, 52 - e, 200)) % 200 > 100

\* f"{seconds / 3600:.2f}" as a number of hundredths.  seconds / 3600 is the
\* double nearest to the quotient and the format rounds that double
\* correctly: a quotient on a decimal tie x.xx5 goes the way of the double's
\* error, or to the even hundredth when the double is exact.
FormatHours2f(seconds) ==
    LET q == seconds \div 36
        r == seconds % 36
        n == seconds \div 18
    IN  IF r < 18 THEN q
        ELSE IF r > 18 THEN q + 1
        ELSE IF n % 25 = 0 THEN (IF q % 2 = 0 THEN q ELSE q + 1)
        ELSE IF DoubleAbove(n) THEN q + 1 ELSE q

(***************************************************************************)
(* int(deadline_days)                                                       *)
(***************************************************************************)
\* int() of a str: optional sign, then digits that single underscores may
\* separate, surrounded by optional whitespace.
IntLiteralOk(body) ==
    /\ body # <<>>
    /\ \A j \in 1..Len(body) : body[j] \in DigitSet \cup {"_"}
    /\ body[1] # "_" /\ body[Len(body)] # "_"
    /\ \A j \in 1..(Len(body) - 1) : ~(body[j] = "_" /\ body[j + 1] = "_")

IntOk(i) == [exc |-> "", n |-> i]
IntRaises(e) == [exc |-> e, n |-> 0]

\* int(x): the integer, or the exception it raises.  A float is truncated
\* towards zero.
int(x) ==
    CASE x.t \in {"int", "bool"} -> IntOk(x.n)
      [] x.t = "float" ->
            IntOk(IF x.n >= 0 THEN x.n \div 10 ELSE -((-x.n) \div 10))
      [] x.t = "inf" -> IntRaises("OverflowError")
      [] x.t = "nan" -> IntRaises("ValueError")
      [] x.t = "str" ->
            LET lit == strip(x.s)
                signed == lit # <<>> /\ lit[1] \in {"+", "-"}
                body == IF signed THEN Tail(lit) ELSE lit
                digits == SelectSeq(body, LAMBDA c : c # "_")
            IN  IF ~IntLiteralOk(body) THEN IntRaises("ValueError")
                ELSE IF signed /\ lit[1] = "-" THEN IntOk(-DecValue(digits))
                ELSE IntOk(DecValue(digits))
      [] OTHER -> IntRaises("TypeError")

(***************************************************************************)
(* Returned strings: the template (kind) and the values it prints          *)
(***************************************************************************)
Blank ==
    [kind |-> "", raised |-> "",
     days |-> 0, hours |-> 0, minutes |-> 0, total_hours |-> 0,
     business_days |-> 0, calendar_days |-> 0, weekend_days |-> 0,
     days_difference |-> 0, days_before |-> 0, deadline_days |-> 0,
     days_remaining |-> 0, days_overdue |-> 0]

Message(kind) == [Blank EXCEPT !.kind = kind]

\* Caught with a handler `except ValueError` in place of `except Exception`:
\* any other exception leaves the function.
Caught_ValueErrorOnly(kind, exc) ==
    IF exc = "ValueError" THEN [Blank EXCEPT !.kind = kind, !.raised = exc]
    ELSE [Blank EXCEPT !.kind = "raise", !.raised = exc]

\* The string of an outer `except Exception as e` handler; raised names the
\* exception.
Caught(kind, exc) == [Blank EXCEPT !.kind = kind, !.raised = exc]

(***************************************************************************)
(* calculate_timeline_duration                                              *)
(***************************************************************************)
\* HoursOf without the reduction modulo one day.
HoursOf_NoDayReduction(total_seconds) == total_seconds \div 3600

\* hours = (total_seconds % 86400) // 3600
HoursOf(total_seconds) == (total_seconds % 86400) \div 3600

\* minutes = (total_seconds % 3600) // 60
MinutesOf(total_seconds) == (total_seconds % 3600) \div 60

\* TotalHoursOf taken from the days/hours/minutes breakdown, which has
\* dropped the leftover seconds.
TotalHoursOf_FromBreakdown(duration) ==
    FormatHours2f(total_seconds_of(duration) - (total_seconds_of(duration) % 60))

\* total_hours = duration.total_seconds() / 3600, printed with :.2f
\* (kept in hundredths of an hour).
TotalHoursOf(duration) == FormatHours2f(total_seconds_of(duration))

DurationResult(start_dt, end_dt) ==
    LET duration == timedelta_sub(end_dt, start_dt)
        total_seconds == total_seconds_of(duration)
    IN  [Message("Duration") EXCEPT
            !.days = duration.days,
            !.hours = HoursOf(total_seconds),
            !.minutes = MinutesOf(total_seconds),
            !.total_hours = TotalHoursOf(duration)]

\* calculate_timeline_duration with end_datetime parsed before
\* start_datetime.
calculate_timeline_duration_EndFirst(start_datetime, end_datetime) ==
    IF ~Truthy(start_datetime) \/ ~Truthy(end_datetime)
    THEN Message("Error: Both start_datetime and end_datetime are required")
    ELSE IF end_datetime.t # "str"
    THEN Caught("Error calculating duration", "AttributeError")
    ELSE LET end_dt == strptime(strip(end_datetime.s), DateTimeFormat)
         IN  IF ~end_dt.ok THEN Message("Error: Invalid end_datetime format")
             ELSE IF start_datetime.t # "str"
             THEN Caught("Error calculating duration", "AttributeError")
             ELSE LET start_dt == strptime(strip(start_datetime.s), DateTimeFormat)
                  IN  IF ~start_dt.ok
                      THEN Message("Error: Invalid start_datetime format")
                      ELSE IF dt_less(end_dt, start_dt)
                      THEN Message("Error: End datetime is before start datetime")
                      ELSE DurationResult(start_dt, end_dt)

calculate_timeline_duration(start_datetime, end_datetime) ==
    IF ~Truthy(start_datetime) \/ ~Truthy(end_datetime)
    THEN Message("Error: Both start_datetime and end_datetime are required")
    ELSE IF start_datetime.t # "str"
    THEN Caught("Error calculating duration", "AttributeError")
    ELSE LET start_dt == strptime(strip(start_datetime.s), DateTimeFormat)
         IN  IF ~start_dt.ok THEN Message("Error: Invalid start_datetime format")
             ELSE IF end_datetime.t # "str"
             THEN Caught("Error calculating duration", "AttributeError")
             ELSE LET end_dt == strptime(strip(end_datetime.s), DateTimeFormat)
                  IN  IF ~end_dt.ok THEN Message("Error: Invalid end_datetime format")
                      ELSE IF dt_less(end_dt, start_dt)
                      THEN Message("Error: End datetime is before start datetime")
                      ELSE DurationResult(start_dt, end_dt)

(***************************************************************************)
(* calculate_business_days                                                  *)
(***************************************************************************)
\* CountDay with Saturday taken for a business day (< 6 for < 5).
CountDay_SaturdayWorked(current_date, business_days) ==
    IF weekday(current_date) < 6 THEN business_days + 1 ELSE business_days

\* if current_date.weekday() < 5: business_days += 1
CountDay(current_date, business_days) ==
    IF weekday(current_date) < 5 THEN business_days + 1 ELSE business_days

\* The while loop from current_date on (dates as ordinals).  After counting
\* a day the loop adds timedelta(days=1), which raises OverflowError past
\* date.max.
RECURSIVE Scan(_, _, _)
Scan(current_date, end_dt, business_days) ==
    IF current_date <= end_dt
    THEN IF current_date + 1 > MaxOrdinal
         THEN [overflow |-> TRUE, business_days |-> CountDay(current_date, business_days)]
         ELSE Scan(current_date + 1, end_dt, CountDay(current_date, business_days))
    ELSE [overflow |-> FALSE, business_days |-> business_days]

\* calendar_days = (end_dt - start_dt).days + 1
CalendarDays(start_dt, end_dt) == timedelta_sub(end_dt, start_dt).days + 1

\* weekend_days = calendar_days - business_days
WeekendDays(calendar_days, business_days) == calendar_days - business_days

BusinessResult(start_dt, end_dt) ==
    LET calendar_days == CalendarDays(start_dt, end_dt)
        scan == Scan(start_dt.ord, end_dt.ord, 0)
    IN  IF scan.overflow
        THEN Caught("Error calculating business days", "OverflowError")
        ELSE [Message("Business days") EXCEPT
                !.business_days = scan.business_days,
                !.calendar_days = calendar_days,
                !.weekend_days = WeekendDays(calendar_days, scan.business_days)]

\* calculate_business_days with one message for both format checks.
calculate_business_days_OneFormatMessage(start_date, end_date) ==
    IF ~Truthy(start_date) \/ ~Truthy(end_date)
    THEN Message("Error: Both start_date and end_date are required")
    ELSE IF start_date.t # "str"
    THEN Caught("Error calculating business days", "AttributeError")
    ELSE LET start_dt == strptime(strip(start_date.s), DateFormat)
         IN  IF ~start_dt.ok THEN Message("Error: Invalid start_date format")
             ELSE IF end_date.t # "str"
             THEN Caught("Error calculating business days", "AttributeError")
             ELSE LET end_dt == strptime(strip(end_date.s), DateFormat)
                  IN  IF ~end_dt.ok THEN Message("Error: Invalid start_date format")
                      ELSE IF dt_less(end_dt, start_dt)
                      THEN Message("Error: End date is before start date")
                      ELSE BusinessResult(start_dt, end_dt)

calculate_business_days(start_date, end_date) ==
    IF ~Truthy(start_date) \/ ~Truthy(end_date)
    THEN Message("Error: Both start_date and end_date are required")
    ELSE IF start_date.t # "str"
    THEN Caught("Error calculating business days", "AttributeError")
    ELSE LET start_dt == strptime(strip(start_date.s), DateFormat)
         IN  IF ~start_dt.ok THEN Message("Error: Invalid start_date format")
             ELSE IF end_date.t # "str"
             THEN Caught("Error calculating business days", "AttributeError")
             ELSE LET end_dt == strptime(strip(end_date.s), DateFormat)
                  IN  IF ~end_dt.ok THEN Message("Error: Invalid end_date format")
                      ELSE IF dt_less(end_dt, start_dt)
                      THEN Message("Error: End date is before start date")
                      ELSE BusinessResult(start_dt, end_dt)

(***************************************************************************)
(* check_policy_compliance                                                  *)
(***************************************************************************)
Abs(i) == IF i < 0 THEN -i ELSE i

\* Classify with the deadline test made before the sign test.
Classify_DeadlineFirst(days_difference, deadline_days) ==
    IF days_difference <= deadline_days
    THEN [Message("COMPLIANT") EXCEPT
            !.days_difference = days_difference,
            !.deadline_days = deadline_days,
            !.days_remaining = deadline_days - days_difference]
    ELSE IF days_difference < 0
    THEN [Message("INVALID") EXCEPT
            !.days_difference = days_difference,
            !.days_before = Abs(days_difference),
            !.deadline_days = deadline_days]
    ELSE [Message("NON-COMPLIANT") EXCEPT
            !.days_difference = days_difference,
            !.deadline_days = deadline_days,
            !.days_overdue = days_difference - deadline_days]

\* Classify with the last day of the window excluded (< for <=).
Classify_StrictDeadline(days_difference, deadline_days) ==
    IF days_difference < 0
    THEN [Message("INVALID") EXCEPT
            !.days_difference = days_difference,
            !.days_before = Abs(days_difference),
            !.deadline_days = deadline_days]
    ELSE IF days_difference < deadline_days
    THEN [Message("COMPLIANT") EXCEPT
            !.days_difference = days_difference,
            !.deadline_days = deadline_days,
            !.days_remaining = deadline_days - days_difference]
    ELSE [Message("NON-COMPLIANT") EXCEPT
            !.days_difference = days_difference,
            !.deadline_days = deadline_days,
            !.days_overdue = days_difference - deadline_days]

\* Classify with days_before = days_difference, abs() left out.
Classify_SignedBefore(days_difference, deadline_days) ==
    IF days_difference < 0
    THEN [Message("INVALID") EXCEPT
            !.days_difference = days_difference,
            !.days_before = days_difference,
            !.deadline_days = deadline_days]
    ELSE IF days_difference <= deadline_days
    THEN [Message("COMPLIANT") EXCEPT
            !.days_difference = days_difference,
            !.deadline_days = deadline_days,
            !.days_remaining = deadline_days - days_difference]
    ELSE [Message("NON-COMPLIANT") EXCEPT
            !.days_difference = days_difference,
            !.deadline_days = deadline_days,
            !.days_overdue = days_difference - deadline_days]

\* The if / elif / else over days_difference.
Classify(days_difference, deadline_days) ==
    IF days_difference < 0
    THEN [Message("INVALID") EXCEPT
            !.days_difference = days_difference,
            !.days_before = Abs(days_difference),
            !.deadline_days = deadline_days]
    ELSE IF days_difference <= deadline_days
    THEN [Message("COMPLIANT") EXCEPT
            !.days_difference = days_difference,
            !.deadline_days = deadline_days,
            !.days_remaining = deadline_days - days_difference]
    ELSE [Message("NON-COMPLIANT") EXCEPT
            !.days_difference = days_difference,
            !.deadline_days = deadline_days,
            !.days_overdue = days_difference - deadline_days]

\* ComplianceDates with the difference taken the other way round,
\* reference_dt - event_dt.
ComplianceDates_ReferenceMinusEvent(event_date, reference_date, deadline_days) ==
    IF event_date.t # "str"
    THEN Caught("Error checking policy compliance", "AttributeError")
    ELSE LET event_dt == strptime(strip(event_date.s), DateFormat)
         IN  IF ~event_dt.ok THEN Message("Error: Invalid event_date format")
             ELSE IF reference_date.t # "str"
             THEN Caught("Error checking policy compliance", "AttributeError")
             ELSE LET reference_dt == strptime(strip(reference_date.s), DateFormat)
                  IN  IF ~reference_dt.ok
                      THEN Message("Error: Invalid reference_date format")
                      ELSE Classify(timedelta_sub(reference_dt, event_dt).days,
                                    deadline_days)

\* The date part of the function: both dates are parsed, event_date first.
ComplianceDates(event_date, reference_date, deadline_days) ==
    IF event_date.t # "str"
    THEN Caught("Error checking policy compliance", "AttributeError")
    ELSE LET event_dt == strptime(strip(event_date.s), DateFormat)
         IN  IF ~event_dt.ok THEN Message("Error: Invalid event_date format")
             ELSE IF reference_date.t # "str"
             THEN Caught("Error checking policy compliance", "AttributeError")
             ELSE LET reference_dt == strptime(strip(reference_date.s), DateFormat)
                  IN  IF ~reference_dt.ok
                      THEN Message("Error: Invalid reference_date format")
                      ELSE Classify(timedelta_sub(event_dt, reference_dt).days,
                                    deadline_days)

\* ComplianceDeadline with the dates parsed before deadline_days is looked
\* at.
ComplianceDeadline_DatesFirst(event_date, reference_date, deadline_days) ==
    LET dates == ComplianceDates(event_date, reference_date, 0)
        coerced == int(deadline_days)
    IN  IF dates.kind \notin {"INVALID", "COMPLIANT", "NON-COMPLIANT"} THEN dates
        ELSE IF deadline_days.t = "none" THEN Message("Error: deadline_days is required")
        ELSE IF coerced.exc \in {"ValueError", "TypeError"}
        THEN Message("Error: deadline_days must be an integer")
        ELSE IF coerced.exc # ""
        THEN Caught("Error checking policy compliance", coerced.exc)
        ELSE IF coerced.n < 0
        THEN [Message("Error: deadline_days must be positive") EXCEPT
                !.deadline_days = coerced.n]
        ELSE ComplianceDates(event_date, reference_date, coerced.n)

\* The deadline part: deadline_days is None, then int(), then negative.
ComplianceDeadline(event_date, reference_date, deadline_days) ==
    IF deadline_days.t = "none" THEN Message("Error: deadline_days is required")
    ELSE LET coerced == int(deadline_days)
         IN  IF coerced.exc \in {"ValueError", "TypeError"}
             THEN Message("Error: deadline_days must be an integer")
             ELSE IF coerced.exc # ""
             THEN Caught("Error checking policy compliance", coerced.exc)
             ELSE IF coerced.n < 0
             THEN [Message("Error: deadline_days must be positive") EXCEPT
                     !.deadline_days = coerced.n]
             ELSE ComplianceDates(event_date, reference_date, coerced.n)

check_policy_compliance(event_date, reference_date, deadline_days) ==
    IF ~Truthy(event_date) \/ ~Truthy(reference_date)
    THEN Message("Error: Both event_date and reference_date are required")
    ELSE ComplianceDeadline(event_date, reference_date, deadline_days)

(***************************************************************************)
(* The characters of the returned strings                                   *)
(***************************************************************************)
RECURSIVE NatText(_)
NatText(k) == IF k < 10 THEN <<Digits[k + 1]>> ELSE NatText(k \div 10) \o <<Digits[(k % 10) + 1]>>

\* f"{i}" of an int.
IntText(i) == IF i < 0 THEN <<"-">> \o NatText(-i) ELSE NatText(i)

\* f"{x:.2f}" of a value given in hundredths (none is negative here).
Fixed2Text(hundredths) ==
    NatText(hundredths \div 100) \o <<".">> \o <<Digits[((hundredths % 100) \div 10) + 1],
        Digits[(hundredths % 10) + 1]>>

\* type(x).__name__
TypeName(x) ==
    CASE x.t = "none" -> <<"N", "o", "n", "e", "T", "y", "p", "e">>
      [] x.t = "str" -> <<"s", "t", "r">>
      [] x.t = "int" -> <<"i", "n", "t">>
      [] x.t = "bool" -> <<"b", "o", "o", "l">>
      [] x.t = "list" -> <<"l", "i", "s", "t">>
      [] OTHER -> <<"f", "l", "o", "a", "t">>

\* f"{x}" of a value; the list of length 1 is [0].
PyText(x) ==
    CASE x.t = "str" -> x.s
      [] x.t = "none" -> <<"N", "o", "n", "e">>
      [] x.t = "int" -> IntText(x.n)
      [] x.t = "bool" -> (IF x.n = 1 THEN <<"T", "r", "u", "e">> ELSE <<"F", "a", "l", "s", "e">>)
      [] x.t = "list" -> (IF x.n = 0 THEN <<"[", "]">> ELSE <<"[", "0", "]">>)
      [] x.t = "inf" -> <<"i", "n", "f">>
      [] x.t = "nan" -> <<"n", "a", "n">>
      [] OTHER -> (IF x.n < 0 THEN <<"-">> ELSE <<>>) \o NatText(Abs(x.n) \div 10) \o <<".",
          Digits[(Abs(x.n) % 10) + 1]>>

\* str(e) of the exception the outer handler caught in the call c: .strip()
\* on the first argument that is no str, the scan past date.max, or int()
\* of an infinite float.
ExcText(c, r) ==
    IF r.raised = "AttributeError"
    THEN <<"'">> \o TypeName(IF c.a.t # "str" THEN c.a ELSE c.b) \o <<"'", " ", "o", "b", "j",
        "e", "c", "t", " ", "h", "a", "s", " ", "n", "o", " ", "a", "t", "t", "r", "i", "b", "u",
        "t", "e", " ", "'", "s", "t", "r", "i", "p", "'">>
    ELSE IF c.op = "calculate_business_days"
    THEN <<"d", "a", "t", "e", " ", "v", "a", "l", "u", "e", " ", "o", "u", "t", " ", "o",
        "f", " ", "r", "a", "n", "g", "e">>
    ELSE <<"c", "a", "n", "n", "o", "t", " ", "c", "o", "n", "v", "e", "r", "t", " ", "f",
        "l", "o", "a", "t", " ", "i", "n", "f", "i", "n", "i", "t", "y", " ", "t", "o", " ", "i",
        "n", "t", "e", "g", "e", "r">>

\* The characters of the string calculate_timeline_duration returns for the call c, r being
\* its template and values.
RenderDuration(c, r) ==
    CASE r.kind = "Error: Both start_datetime and end_datetime are required" -> <<"E", "r",
        "r", "o", "r", ":", " ", "B", "o", "t", "h", " ", "s", "t", "a", "r", "t", "_", "d", "a",
        "t", "e", "t", "i", "m", "e", " ", "a", "n", "d", " ", "e", "n", "d", "_", "d", "a", "t",
        "e", "t", "i", "m", "e", " ", "a", "r", "e", " ", "r", "e", "q", "u", "i", "r", "e", "d",
        ".">>
      [] r.kind = "Error: Invalid start_datetime format" -> <<"E", "r", "r", "o", "r", ":",
          " ", "I", "n", "v", "a", "l", "i", "d", " ", "s", "t", "a", "r", "t", "_", "d", "a",
          "t", "e", "t", "i", "m", "e", " ", "f", "o", "r", "m", "a", "t", " ", "'">> \o
          PyText(c.a) \o <<"'", ".", " ", "R", "e", "q", "u", "i", "r", "e", "d", " ", "f", "o",
          "r", "m", "a", "t", ":", " ", "'", "Y", "Y", "Y", "Y", "-", "M", "M", "-", "D", "D",
          " ", "H", "H", ":", "M", "M", ":", "S", "S", "'", " ", "(", "e", ".", "g", ".", ",",
          " ", "'", "2", "0", "2", "4", "-", "0", "1", "-", "1", "5", " ", "0", "9", ":", "3",
          "0", ":", "0", "0", "'", ")">>
      [] r.kind = "Error: Invalid end_datetime format" -> <<"E", "r", "r", "o", "r", ":", " ",
          "I", "n", "v", "a", "l", "i", "d", " ", "e", "n", "d", "_", "d", "a", "t", "e", "t",
          "i", "m", "e", " ", "f", "o", "r", "m", "a", "t", " ", "'">> \o PyText(c.b) \o <<"'",
          ".", " ", "R", "e", "q", "u", "i", "r", "e", "d", " ", "f", "o", "r", "m", "a", "t",
          ":", " ", "'", "Y", "Y", "Y", "Y", "-", "M", "M", "-", "D", "D", " ", "H", "H", ":",
          "M", "M", ":", "S", "S", "'", " ", "(", "e", ".", "g", ".", ",", " ", "'", "2", "0",
          "2", "4", "-", "0", "1", "-", "1", "8", " ", "1", "4", ":", "4", "5", ":", "0", "0",
          "'", ")">>
      [] r.kind = "Error: End datetime is before start datetime" -> <<"E", "r", "r", "o", "r",
          ":", " ", "E", "n", "d", " ", "d", "a", "t", "e", "t", "i", "m", "e", " ", "(">> \o
          PyText(c.b) \o <<")", " ", "i", "s", " ", "b", "e", "f", "o", "r", "e", " ", "s", "t",
          "a", "r", "t", " ", "d", "a", "t", "e", "t", "i", "m", "e", " ", "(">> \o PyText(c.a) \o
          <<")", ".", " ", "P", "l", "e", "a", "s", "e", " ", "e", "n", "s", "u", "r", "e", " ",
          "e", "n", "d", " ", "t", "i", "m", "e", " ", "i", "s", " ", "a", "f", "t", "e", "r",
          " ", "s", "t", "a", "r", "t", " ", "t", "i", "m", "e", ".">>
      [] r.kind = "Error calculating duration" -> <<"E", "r", "r", "o", "r", " ", "c", "a",
          "l", "c", "u", "l", "a", "t", "i", "n", "g", " ", "d", "u", "r", "a", "t", "i", "o",
          "n", ":", " ">> \o ExcText(c, r)
      [] r.kind = "Duration" -> <<"D", "u", "r", "a", "t", "i", "o", "n", ":", " ">> \o
          IntText(r.days) \o <<" ", "d", "a", "y", "s", ",", " ">> \o IntText(r.hours) \o <<" ",
          "h", "o", "u", "r", "s", ",", " ">> \o IntText(r.minutes) \o <<" ", "m", "i", "n", "u",
          "t", "e", "s", " ", "(", "T", "o", "t", "a", "l", ":", " ">> \o
          Fixed2Text(r.total_hours) \o <<" ", "h", "o", "u", "r", "s", ")">>
      [] OTHER -> <<>>

\* The characters of the string calculate_business_days returns for the call c, r being
\* its template and values.
RenderBusiness(c, r) ==
    CASE r.kind = "Error: Both start_date and end_date are required" -> <<"E", "r", "r", "o",
        "r", ":", " ", "B", "o", "t", "h", " ", "s", "t", "a", "r", "t", "_", "d", "a", "t", "e",
        " ", "a", "n", "d", " ", "e", "n", "d", "_", "d", "a", "t", "e", " ", "a", "r", "e", " ",
        "r", "e", "q", "u", "i", "r", "e", "d", ".">>
      [] r.kind = "Error: Invalid start_date format" -> <<"E", "r", "r", "o", "r", ":", " ",
          "I", "n", "v", "a", "l", "i", "d", " ", "s", "t", "a", "r", "t", "_", "d", "a", "t",
          "e", " ", "f", "o", "r", "m", "a", "t", " ", "'">> \o PyText(c.a) \o <<"'", ".", " ",
          "R", "e", "q", "u", "i", "r", "e", "d", " ", "f", "o", "r", "m", "a", "t", ":", " ",
          "'", "Y", "Y", "Y", "Y", "-", "M", "M", "-", "D", "D", "'", " ", "(", "e", ".", "g",
          ".", ",", " ", "'", "2", "0", "2", "4", "-", "0", "1", "-", "1", "5", "'", ")">>
      [] r.kind = "Error: Invalid end_date format" -> <<"E", "r", "r", "o", "r", ":", " ",
          "I", "n", "v", "a", "l", "i", "d", " ", "e", "n", "d", "_", "d", "a", "t", "e", " ",
          "f", "o", "r", "m", "a", "t", " ", "'">> \o PyText(c.b) \o <<"'", ".", " ", "R", "e",
          "q", "u", "i", "r", "e", "d", " ", "f", "o", "r", "m", "a", "t", ":", " ", "'", "Y",
          "Y", "Y", "Y", "-", "M", "M", "-", "D", "D", "'", " ", "(", "e", ".", "g", ".", ",",
          " ", "'", "2", "0", "2", "4", "-", "0", "1", "-", "2", "5", "'", ")">>
      [] r.kind = "Error: End date is before start date" -> <<"E", "r", "r", "o", "r", ":",
          " ", "E", "n", "d", " ", "d", "a", "t", "e", " ", "(">> \o PyText(c.b) \o <<")", " ",
          "i", "s", " ", "b", "e", "f", "o", "r", "e", " ", "s", "t", "a", "r", "t", " ", "d",
          "a", "t", "e", " ", "(">> \o PyText(c.a) \o <<")", ".", " ", "P", "l", "e", "a", "s",
          "e", " ", "e", "n", "s", "u", "r", "e", " ", "e", "n", "d", " ", "d", "a", "t", "e",
          " ", "i", "s", " ", "a", "f", "t", "e", "r", " ", "s", "t", "a", "r", "t", " ", "d",
          "a", "t", "e", ".">>
      [] r.kind = "Error calculating business days" -> <<"E", "r", "r", "o", "r", " ", "c",
          "a", "l", "c", "u", "l", "a", "t", "i", "n", "g", " ", "b", "u", "s", "i", "n", "e",
          "s", "s", " ", "d", "a", "y", "s", ":", " ">> \o ExcText(c, r)
      [] r.kind = "Business days" -> <<"B", "u", "s", "i", "n", "e", "s", "s", " ", "d", "a",
          "y", "s", ":", " ">> \o IntText(r.business_days) \o <<",", " ", "C", "a", "l", "e", "n",
          "d", "a", "r", " ", "d", "a", "y", "s", ":", " ">> \o IntText(r.calendar_days) \o <<",",
          " ", "W", "e", "e", "k", "e", "n", "d", " ", "d", "a", "y", "s", ":", " ">> \o
          IntText(r.weekend_days) \o <<" ", "(", "f", "r", "o", "m", " ">> \o PyText(c.a) \o
          <<" ", "t", "o", " ">> \o PyText(c.b) \o <<")">>
      [] OTHER -> <<>>

\* The characters of the string check_policy_compliance returns for the call c, r being
\* its template and values.
RenderCompliance(c, r) ==
    CASE r.kind = "Error: Both event_date and reference_date are required" -> <<"E", "r", "r",
        "o", "r", ":", " ", "B", "o", "t", "h", " ", "e", "v", "e", "n", "t", "_", "d", "a", "t",
        "e", " ", "a", "n", "d", " ", "r", "e", "f", "e", "r", "e", "n", "c", "e", "_", "d", "a",
        "t", "e", " ", "a", "r", "e", " ", "r", "e", "q", "u", "i", "r", "e", "d", ".">>
      [] r.kind = "Error: deadline_days is required" -> <<"E", "r", "r", "o", "r", ":", " ",
          "d", "e", "a", "d", "l", "i", "n", "e", "_", "d", "a", "y", "s", " ", "i", "s", " ",
          "r", "e", "q", "u", "i", "r", "e", "d", ".">>
      [] r.kind = "Error: deadline_days must be an integer" -> <<"E", "r", "r", "o", "r", ":",
          " ", "d", "e", "a", "d", "l", "i", "n", "e", "_", "d", "a", "y", "s", " ", "m", "u",
          "s", "t", " ", "b", "e", " ", "a", "n", " ", "i", "n", "t", "e", "g", "e", "r", ",",
          " ", "g", "o", "t", " ", "'">> \o PyText(c.c) \o <<"'">>
      [] r.kind = "Error: deadline_days must be positive" -> <<"E", "r", "r", "o", "r", ":",
          " ", "d", "e", "a", "d", "l", "i", "n", "e", "_", "d", "a", "y", "s", " ", "m", "u",
          "s", "t", " ", "b", "e", " ", "p", "o", "s", "i", "t", "i", "v", "e", ",", " ", "g",
          "o", "t", " ">> \o IntText(r.deadline_days)
      [] r.kind = "Error: Invalid event_date format" -> <<"E", "r", "r", "o", "r", ":", " ",
          "I", "n", "v", "a", "l", "i", "d", " ", "e", "v", "e", "n", "t", "_", "d", "a", "t",
          "e", " ", "f", "o", "r", "m", "a", "t", " ", "'">> \o PyText(c.a) \o <<"'", ".", " ",
          "R", "e", "q", "u", "i", "r", "e", "d", " ", "f", "o", "r", "m", "a", "t", ":", " ",
          "'", "Y", "Y", "Y", "Y", "-", "M", "M", "-", "D", "D", "'", " ", "(", "e", ".", "g",
          ".", ",", " ", "'", "2", "0", "2", "4", "-", "0", "1", "-", "2", "0", "'", ")">>
      [] r.kind = "Error: Invalid reference_date format" -> <<"E", "r", "r", "o", "r", ":",
          " ", "I", "n", "v", "a", "l", "i", "d", " ", "r", "e", "f", "e", "r", "e", "n", "c",
          "e", "_", "d", "a", "t", "e", " ", "f", "o", "r", "m", "a", "t", " ", "'">> \o
          PyText(c.b) \o <<"'", ".", " ", "R", "e", "q", "u", "i", "r", "e", "d", " ", "f", "o",
          "r", "m", "a", "t", ":", " ", "'", "Y", "Y", "Y", "Y", "-", "M", "M", "-", "D", "D",
          "'", " ", "(", "e", ".", "g", ".", ",", " ", "'", "2", "0", "2", "4", "-", "0", "1",
          "-", "1", "5", "'", ")">>
      [] r.kind = "Error checking policy compliance" -> <<"E", "r", "r", "o", "r", " ", "c",
          "h", "e", "c", "k", "i", "n", "g", " ", "p", "o", "l", "i", "c", "y", " ", "c", "o",
          "m", "p", "l", "i", "a", "n", "c", "e", ":", " ">> \o ExcText(c, r)
      [] r.kind = "INVALID" -> <<"I", "N", "V", "A", "L", "I", "D", ":", " ", "E", "v", "e",
          "n", "t", " ", "d", "a", "t", "e", " ", "(">> \o PyText(c.a) \o <<")", " ", "i", "s",
          " ">> \o IntText(r.days_before) \o <<" ", "d", "a", "y", "s", " ", "B", "E", "F", "O",
          "R", "E", " ", "r", "e", "f", "e", "r", "e", "n", "c", "e", " ", "d", "a", "t", "e",
          " ", "(">> \o PyText(c.b) \o <<")", ".", " ", "E", "v", "e", "n", "t", " ", "s", "h",
          "o", "u", "l", "d", " ", "o", "c", "c", "u", "r", " ", "a", "f", "t", "e", "r", " ",
          "r", "e", "f", "e", "r", "e", "n", "c", "e", " ", "d", "a", "t", "e", ".">>
      [] r.kind = "COMPLIANT" -> <<"C", "O", "M", "P", "L", "I", "A", "N", "T", ":", " ", "E",
          "v", "e", "n", "t", " ", "o", "c", "c", "u", "r", "r", "e", "d", " ">> \o
          IntText(r.days_difference) \o <<" ", "d", "a", "y", "s", " ", "a", "f", "t", "e", "r",
          " ", "r", "e", "f", "e", "r", "e", "n", "c", "e", " ", "d", "a", "t", "e", ".", " ",
          "D", "e", "a", "d", "l", "i", "n", "e", ":", " ">> \o IntText(r.deadline_days) \o <<" ",
          "d", "a", "y", "s", ".", " ", "S", "t", "a", "t", "u", "s", ":", " ", "W", "i", "t",
          "h", "i", "n", " ", "d", "e", "a", "d", "l", "i", "n", "e", " ", "(">> \o
          IntText(r.days_remaining) \o <<" ", "d", "a", "y", "s", " ", "r", "e", "m", "a", "i",
          "n", "i", "n", "g", ")">>
      [] r.kind = "NON-COMPLIANT" -> <<"N", "O", "N", "-", "C", "O", "M", "P", "L", "I", "A",
          "N", "T", ":", " ", "E", "v", "e", "n", "t", " ", "o", "c", "c", "u", "r", "r", "e",
          "d", " ">> \o IntText(r.days_difference) \o <<" ", "d", "a", "y", "s", " ", "a", "f",
          "t", "e", "r", " ", "r", "e", "f", "e", "r", "e", "n", "c", "e", " ", "d", "a", "t",
          "e", ".", " ", "D", "e", "a", "d", "l", "i", "n", "e", ":", " ">> \o
          IntText(r.deadline_days) \o <<" ", "d", "a", "y", "s", ".", " ", "S", "t", "a", "t",
          "u", "s", ":", " ", "E", "X", "C", "E", "E", "D", "E", "D", " ", "d", "e", "a", "d",
          "l", "i", "n", "e", " ", "b", "y", " ">> \o IntText(r.days_overdue) \o <<" ", "d", "a",
          "y", "s">>
      [] OTHER -> <<>>

\* The string a call returns when the outer handlers return str(e) alone, without
\* the "Error ...: " in front of it.
Render_BareException(c, r) ==
    IF r.raised # "" THEN ExcText(c, r)
    ELSE CASE c.op = "calculate_timeline_duration" -> RenderDuration(c, r)
           [] c.op = "calculate_business_days" -> RenderBusiness(c, r)
           [] OTHER -> RenderCompliance(c, r)

\* The string a call returns.
Render(c, r) ==
    CASE c.op = "calculate_timeline_duration" -> RenderDuration(c, r)
      [] c.op = "calculate_business_days" -> RenderBusiness(c, r)
      [] OTHER -> RenderCompliance(c, r)

(***************************************************************************)
(* The arguments the tools are called with                                  *)
(***************************************************************************)
\* The last day of March 2024 among the dates, the latest integer deadline,
\* and the longest range the business-day scan is run on.
LastMarchDay == 4
MaxDeadline == 3
MaxSpan == 12

D2(k) == <<Digits[(k \div 10) + 1], Digits[(k % 10) + 1]>>
D4(k) == D2(k \div 100) \o D2(k % 100)
\* Decimal digits without padding, for k < 100.
D1(k) == IF k < 10 THEN <<Digits[k + 1]>> ELSE D2(k)

DateText(y, m, d) == D4(y) \o <<"-">> \o D2(m) \o <<"-">> \o D2(d)
TimeText(h, mi, s) == D2(h) \o <<":">> \o D2(mi) \o <<":">> \o D2(s)
DateTimeText(y, m, d, h, mi, s) == DateText(y, m, d) \o <<" ">> \o TimeText(h, mi, s)

\* 2024-02-24 (a Saturday) .. 2024-03-LastMarchDay, across the leap day.
WindowDays ==
    {<<2024, 2, d>> : d \in 24..29} \cup {<<2024, 3, d>> : d \in 1..LastMarchDay}

\* Dates at both ends of the calendar.
EdgeDays == {<<1, 1, 1>>, <<9999, 12, 30>>, <<9999, 12, 31>>}

WellFormedDates ==
    {PyStr(DateText(x[1], x[2], x[3])) : x \in WindowDays \cup EdgeDays}
    \cup {PyStr(<<" ">> \o DateText(2024, 2, 29) \o <<"\t">>),
          PyStr(D4(2024) \o <<"-">> \o D1(3) \o <<"-">> \o D1(1)),
          PyStr(D4(2024) \o <<"-", "0", "3", "-", " ", "2">>)}

MalformedDates ==
    {PyStr(<<" ", " ">>),
     PyStr(DateText(2024, 2, 30)),
     PyStr(DateText(2023, 2, 29)),
     PyStr(DateText(1900, 2, 29)),
     PyStr(DateText(0, 1, 1)),
     PyStr(DateText(2024, 13, 1)),
     PyStr(D2(2) \o <<"/">> \o D2(29) \o <<"/">> \o D4(2024)),
     PyStr(DateTimeText(2024, 2, 29, 9, 0, 0)),
     PyStr(<<"I", "N", "V", "A", "L", "I", "D">>)}

AbsentValues == {PyNone, PyStr(<<>>), PyInt(0)}
WrongTypes == {PyInt(20240229), PyList(1)}

DateInputs == WellFormedDates \cup MalformedDates \cup AbsentValues \cup WrongTypes

ClockTimes ==
    {<<0, 0, 0>>, <<0, 0, 18>>, <<9, 30, 0>>, <<14, 45, 59>>, <<23, 59, 59>>}

WellFormedDateTimes ==
    {PyStr(DateTimeText(2024, x[1], x[2], c[1], c[2], c[3])) :
        x \in {<<2, 28>>, <<2, 29>>, <<3, 1>>}, c \in ClockTimes}
    \cup {PyStr(<<"\t">> \o DateTimeText(2024, 2, 29, 9, 30, 54) \o <<" ">>),
          PyStr(DateText(2024, 2, 29) \o <<" ", "\t">> \o TimeText(12, 0, 0)),
          PyStr(D4(2024) \o <<"-", "3", "-", "1", " ", "9", ":", "3", ":", "0">>)}

MalformedDateTimes ==
    {PyStr(<<"\t">>),
     PyStr(DateText(2024, 2, 29)),
     PyStr(DateText(2024, 2, 29) \o <<"T">> \o TimeText(9, 30, 0)),
     PyStr(DateTimeText(2024, 2, 30, 9, 30, 0)),
     PyStr(DateTimeText(2023, 2, 29, 9, 30, 0)),
     PyStr(DateTimeText(1900, 2, 29, 9, 30, 0)),
     PyStr(DateTimeText(2024, 2, 29, 24, 0, 0)),
     PyStr(DateTimeText(2024, 2, 29, 9, 60, 0)),
     PyStr(DateTimeText(2024, 2, 29, 9, 30, 60))}

DateTimeInputs ==
    WellFormedDateTimes \cup MalformedDateTimes \cup AbsentValues \cup WrongTypes

DeadlineInputs ==
    {PyInt(i) : i \in (0..MaxDeadline) \cup {30, -1, -5}}
    \cup {PyNone, PyBool(TRUE), PyBool(FALSE), PyList(0), PyInf, PyNaN,
          PyFloat(37), PyFloat(-5), PyFloat(-15),
          PyStr(<<"2">>), PyStr(<<" ", "+", "3", " ">>), PyStr(<<"-", "3">>),
          PyStr(<<"1", "_", "0">>), PyStr(<<"3", ".", "5">>), PyStr(<<>>),
          PyStr(<<"t", "h", "i", "r", "t", "y">>)}

\* The parsed value of an argument, ParseError for anything but a str that
\* parses once stripped.
Parsed(x, format) == IF x.t = "str" THEN strptime(strip(x.s), format) ELSE ParseError

\* The scan is run on ranges of at most MaxSpan days.
SpanBounded(start_date, end_date) ==
    LET s == Parsed(start_date, DateFormat)
        e == Parsed(end_date, DateFormat)
    IN  s.ok /\ e.ok => e.ord - s.ord < MaxSpan

(***************************************************************************)
(* State: a call of one of the tools, made with arguments drawn from the    *)
(* sets above, and the string it returns                                    *)
(***************************************************************************)
DurationCalls ==
    {[op |-> "calculate_timeline_duration", a |-> s, b |-> e, c |-> PyNone] :
        s \in DateTimeInputs, e \in DateTimeInputs}

BusinessCalls ==
    {x \in {[op |-> "calculate_business_days", a |-> s, b |-> e, c |-> PyNone] :
                s \in DateInputs, e \in DateInputs} : SpanBounded(x.a, x.b)}

ComplianceCalls ==
    {[op |-> "check_policy_compliance", a |-> ev, b |-> ref, c |-> dl] :
        ev \in DateInputs, ref \in DateInputs, dl \in DeadlineInputs}

(***************************************************************************)
(* Callers at the same time: the position of each, the local variables of   *)
(* each frame, and a call that has returned, kept with its string           *)
(***************************************************************************)
MaxThreads == 2
Threads == 1..MaxThreads

NoCall == [op |-> "none", a |-> PyNone, b |-> PyNone, c |-> PyNone]
IdleThread == [at |-> "idle", call |-> NoCall, result |-> Blank]
NoReturn == [call |-> NoCall, result |-> Blank]

\* The orchestrator before a message, the retriever module as imported and
\* no call of get_claim_retriever yet, no persisted collection.
NoOutput ==
    [kind |-> "none", classification |-> 0, explanation |-> <<>>, response |-> <<>>,
     error |-> <<>>]
IdleAgent ==
    [at |-> "idle", message |-> <<>>, classification |-> 0, explanation |-> <<>>,
     experts |-> <<>>, output |-> NoOutput]
NoInstance == [id |-> 0, pdf_path |-> "", use_chromadb |-> FALSE, retriever |-> 0]
NoRetrieverCall ==
    [rebuild |-> FALSE, pdf_path |-> "", use_chromadb |-> FALSE, before |-> NoInstance,
     branch |-> "none", constructed |-> FALSE, build_all |-> "none", on |-> NoInstance,
     outcome |-> "none", value |-> 0]
NoCalls == [count |-> 0, instances |-> 0, retrievers |-> 0, last |-> NoRetrieverCall]
NoChroma == [count |-> 0, docstore |-> FALSE]

\* start_dt, end_dt, calendar_days, business_days, current_date.
NoLocals ==
    [start_dt |-> 0, end_dt |-> 0, calendar_days |-> 0, business_days |-> 0,
     current_date |-> 0]

\* The frame of a call when every caller runs in one frame, as with
\* module-level variables.
FrameOf_Shared(thread) == 1

\* The frame of the call a thread makes: its own.
FrameOf(thread) == thread

\* The frame of a call whose counter goes on from the value an earlier call
\* left in it.
Enter_KeepCount(previous, start_dt, end_dt) ==
    [start_dt |-> start_dt.ord, end_dt |-> end_dt.ord,
     calendar_days |-> CalendarDays(start_dt, end_dt),
     business_days |-> previous.business_days,
     current_date |-> start_dt.ord]

\* The local variables as the loop is entered: calendar_days = (end_dt -
\* start_dt).days + 1, business_days = 0, current_date = start_dt.
Enter(previous, start_dt, end_dt) ==
    [start_dt |-> start_dt.ord, end_dt |-> end_dt.ord,
     calendar_days |-> CalendarDays(start_dt, end_dt),
     business_days |-> 0,
     current_date |-> start_dt.ord]

\* The part of calculate_business_days before the loop: the error string of
\* the check that fails, or the two parsed dates.
BusinessEntry(start_date, end_date) ==
    LET failed(r) == [ok |-> FALSE, result |-> r, start_dt |-> ParseError, end_dt |-> ParseError]
    IN  IF ~Truthy(start_date) \/ ~Truthy(end_date)
        THEN failed(Message("Error: Both start_date and end_date are required"))
        ELSE IF start_date.t # "str"
        THEN failed(Caught("Error calculating business days", "AttributeError"))
        ELSE LET start_dt == strptime(strip(start_date.s), DateFormat)
             IN  IF ~start_dt.ok THEN failed(Message("Error: Invalid start_date format"))
                 ELSE IF end_date.t # "str"
                 THEN failed(Caught("Error calculating business days", "AttributeError"))
                 ELSE LET end_dt == strptime(strip(end_date.s), DateFormat)
                      IN  IF ~end_dt.ok
                          THEN failed(Message("Error: Invalid end_date format"))
                          ELSE IF dt_less(end_dt, start_dt)
                          THEN failed(Message("Error: End date is before start date"))
                          ELSE [ok |-> TRUE, result |-> Blank,
                                start_dt |-> start_dt, end_dt |-> end_dt]

\* The calls of the documented example and of the tests across the month,
\* year and leap-day boundaries.
ExampleCalls ==
    {[op |-> "calculate_business_days", a |-> PyStr(DateText(2024, 1, 15)),
      b |-> PyStr(DateText(2024, 1, 25)), c |-> PyNone],
     [op |-> "calculate_business_days", a |-> PyStr(DateText(2023, 12, 28)),
      b |-> PyStr(DateText(2024, 1, 3)), c |-> PyNone],
     [op |-> "check_policy_compliance", a |-> PyStr(DateText(2024, 3, 1)),
      b |-> PyStr(DateText(2024, 1, 10)), c |-> PyInt(30)],
     [op |-> "check_policy_compliance", a |-> PyStr(DateText(2023, 3, 1)),
      b |-> PyStr(DateText(2023, 2, 28)), c |-> PyInt(30)]}

Init ==
    /\ call \in DurationCalls \cup BusinessCalls \cup ComplianceCalls \cup ExampleCalls
    /\ pc = "called"
    /\ result = Blank
    /\ threads = [thread \in Threads |-> IdleThread]
    /\ locals = [frame \in Threads |-> NoLocals]
    /\ earlier = NoReturn
    /\ agent = IdleAgent
    /\ global_retriever_instance = NoInstance
    /\ calls = NoCalls
    /\ chroma = NoChroma

CallDuration ==
    /\ pc = "called"
    /\ call.op = "calculate_timeline_duration"
    /\ result' = calculate_timeline_duration(call.a, call.b)
    /\ pc' = "returned"
    /\ UNCHANGED <<call, threads, locals, earlier, agent, global_retriever_instance, calls, chroma>>

CallBusinessDays ==
    /\ pc = "called"
    /\ call.op = "calculate_business_days"
    /\ result' = calculate_business_days(call.a, call.b)
    /\ pc' = "returned"
    /\ UNCHANGED <<call, threads, locals, earlier, agent, global_retriever_instance, calls, chroma>>

CallCompliance ==
    /\ pc = "called"
    /\ call.op = "check_policy_compliance"
    /\ result' = check_policy_compliance(call.a, call.b, call.c)
    /\ pc' = "returned"
    /\ UNCHANGED <<call, threads, locals, earlier, agent, global_retriever_instance, calls, chroma>>

Next == CallDuration \/ CallBusinessDays \/ CallCompliance

Spec == Init /\ [][Next]_vars

(***************************************************************************)
(* Several callers at once                                                  *)
(***************************************************************************)
\* What the callers call: a range from a Friday to a Saturday, the one-day
\* range of date.max, a date that does not parse, and one call of each other
\* tool.
ThreadCalls ==
    {[op |-> "calculate_business_days", a |-> PyStr(DateText(2024, 3, 1)),
      b |-> PyStr(DateText(2024, 3, 2)), c |-> PyNone],
     [op |-> "calculate_business_days", a |-> PyStr(DateText(9999, 12, 31)),
      b |-> PyStr(DateText(9999, 12, 31)), c |-> PyNone],
     [op |-> "calculate_business_days", a |-> PyStr(DateText(2024, 2, 30)),
      b |-> PyStr(DateText(2024, 3, 1)), c |-> PyNone],
     [op |-> "calculate_timeline_duration",
      a |-> PyStr(DateTimeText(2024, 2, 28, 9, 30, 0)),
      b |-> PyStr(DateTimeText(2024, 3, 1, 14, 45, 59)), c |-> PyNone],
     [op |-> "check_policy_compliance", a |-> PyStr(DateText(2024, 3, 1)),
      b |-> PyStr(DateText(2024, 2, 28)), c |-> PyInt(1)]}

InitThreads ==
    /\ call = NoCall
    /\ pc = "threads"
    /\ result = Blank
    /\ threads = [thread \in Threads |-> IdleThread]
    /\ locals = [frame \in Threads |-> NoLocals]
    /\ earlier = NoReturn
    /\ agent = IdleAgent
    /\ global_retriever_instance = NoInstance
    /\ calls = NoCalls
    /\ chroma = NoChroma

\* The local variables of the call the thread is in.
Frame(thread) == locals[FrameOf(thread)]

\* A caller invokes a tool.
Invoke(thread) ==
    /\ threads[thread].at = "idle"
    /\ \E c \in ThreadCalls :
          threads' = [threads EXCEPT ![thread] = [at |-> "entered", call |-> c, result |-> Blank]]
    /\ UNCHANGED <<call, pc, result, locals, earlier, agent, global_retriever_instance, calls, chroma>>

\* calculate_timeline_duration from its first statement to its return.
RunDuration(thread) ==
    /\ threads[thread].at = "entered"
    /\ threads[thread].call.op = "calculate_timeline_duration"
    /\ threads' = [threads EXCEPT
          ![thread].at = "done",
          ![thread].result = calculate_timeline_duration(threads[thread].call.a,
                                                         threads[thread].call.b)]
    /\ UNCHANGED <<call, pc, result, locals, earlier, agent, global_retriever_instance, calls, chroma>>

\* check_policy_compliance from its first statement to its return.
RunCompliance(thread) ==
    /\ threads[thread].at = "entered"
    /\ threads[thread].call.op = "check_policy_compliance"
    /\ threads' = [threads EXCEPT
          ![thread].at = "done",
          ![thread].result = check_policy_compliance(threads[thread].call.a,
                                                     threads[thread].call.b,
                                                     threads[thread].call.c)]
    /\ UNCHANGED <<call, pc, result, locals, earlier, agent, global_retriever_instance, calls, chroma>>

\* calculate_business_days up to the loop: a failed check returns its
\* string, otherwise the local variables are set.
EnterBusinessDays(thread) ==
    /\ threads[thread].at = "entered"
    /\ threads[thread].call.op = "calculate_business_days"
    /\ LET entry == BusinessEntry(threads[thread].call.a, threads[thread].call.b)
       IN  IF entry.ok
           THEN /\ locals' = [locals EXCEPT ![FrameOf(thread)] =
                                 Enter(locals[FrameOf(thread)], entry.start_dt, entry.end_dt)]
                /\ threads' = [threads EXCEPT ![thread].at = "while"]
           ELSE /\ threads' = [threads EXCEPT ![thread].at = "done",
                                                ![thread].result = entry.result]
                /\ UNCHANGED locals
    /\ UNCHANGED <<call, pc, result, earlier, agent, global_retriever_instance, calls, chroma>>

\* while current_date <= end_dt
TestDate(thread) ==
    /\ threads[thread].at = "while"
    /\ threads' = [threads EXCEPT ![thread].at =
          IF Frame(thread).current_date <= Frame(thread).end_dt THEN "if" ELSE "after"]
    /\ UNCHANGED <<call, pc, result, locals, earlier, agent, global_retriever_instance, calls, chroma>>

\* if current_date.weekday() < 5: business_days += 1
CountDate(thread) ==
    /\ threads[thread].at = "if"
    /\ locals' = [locals EXCEPT ![FrameOf(thread)].business_days =
          CountDay(Frame(thread).current_date, Frame(thread).business_days)]
    /\ threads' = [threads EXCEPT ![thread].at = "advance"]
    /\ UNCHANGED <<call, pc, result, earlier, agent, global_retriever_instance, calls, chroma>>

\* current_date += timedelta(days=1), which raises OverflowError past
\* date.max; the handler returns its string.
AdvanceDate(thread) ==
    /\ threads[thread].at = "advance"
    /\ IF Frame(thread).current_date + 1 > MaxOrdinal
       THEN /\ threads' = [threads EXCEPT
                  ![thread].at = "done",
                  ![thread].result = Caught("Error calculating business days",
                                            "OverflowError")]
            /\ UNCHANGED locals
       ELSE /\ locals' = [locals EXCEPT ![FrameOf(thread)].current_date =
                  Frame(thread).current_date + 1]
            /\ threads' = [threads EXCEPT ![thread].at = "while"]
    /\ UNCHANGED <<call, pc, result, earlier, agent, global_retriever_instance, calls, chroma>>

\* weekend_days = calendar_days - business_days, and the string is built.
FormatCounts(thread) ==
    /\ threads[thread].at = "after"
    /\ threads' = [threads EXCEPT
          ![thread].at = "done",
          ![thread].result = [Message("Business days") EXCEPT
              !.business_days = Frame(thread).business_days,
              !.calendar_days = Frame(thread).calendar_days,
              !.weekend_days = WeekendDays(Frame(thread).calendar_days,
                                           Frame(thread).business_days)]]
    /\ UNCHANGED <<call, pc, result, locals, earlier, agent, global_retriever_instance, calls, chroma>>

\* The string reaches the caller; the first call that is kept may be this
\* one.
Return(thread) ==
    /\ threads[thread].at = "done"
    /\ \/ UNCHANGED earlier
       \/ /\ earlier = NoReturn
          /\ earlier' = [call |-> threads[thread].call, result |-> threads[thread].result]
    /\ threads' = [threads EXCEPT ![thread] = IdleThread]
    /\ UNCHANGED <<call, pc, result, locals, agent, global_retriever_instance, calls, chroma>>

NextThreads ==
    \E thread \in Threads :
        \/ Invoke(thread)
        \/ RunDuration(thread)
        \/ RunCompliance(thread)
        \/ EnterBusinessDays(thread)
        \/ TestDate(thread)
        \/ CountDate(thread)
        \/ AdvanceDate(thread)
        \/ FormatCounts(thread)
        \/ Return(thread)

SpecThreads == InitThreads /\ [][NextThreads]_vars

(***************************************************************************)
(* extract_claim_metadata.py: extract_claim_dates and its helper            *)
(* convert_to_iso_datetime.  The document is taken by what re.search makes *)
(* of it: for each pattern, whether it matches and the text of its groups. *)
(***************************************************************************)
Lower ==
    <<"a", "b", "c", "d", "e", "f", "g", "h", "i", "j", "k", "l", "m", "n", "o", "p", "q", "r", "s", "t", "u", "v", "w", "x", "y", "z">>
Upper ==
    <<"A", "B", "C", "D", "E", "F", "G", "H", "I", "J", "K", "L", "M", "N", "O", "P", "Q", "R", "S", "T", "U", "V", "W", "X", "Y", "Z">>
Letters == {Lower[i] : i \in 1..26} \cup {Upper[i] : i \in 1..26}

\* c.lower()
Fold(c) == IF \E i \in 1..26 : Upper[i] = c THEN Lower[CHOOSE i \in 1..26 : Upper[i] = c] ELSE c
FoldAll(chars) == [j \in 1..Len(chars) |-> Fold(chars[j])]

\* A word of a regex compiled with re.IGNORECASE: each letter in both cases.
AnyCase(word) ==
    [j \in 1..Len(word) |->
        {c \in Letters \cup {word[j]} : Fold(c) = word[j]}]

\* The month names in the order of the alternatives of %B (longest first).
Months ==
    <<[name |-> <<"s", "e", "p", "t", "e", "m", "b", "e", "r">>, number |-> 9],
      [name |-> <<"f", "e", "b", "r", "u", "a", "r", "y">>, number |-> 2],
      [name |-> <<"n", "o", "v", "e", "m", "b", "e", "r">>, number |-> 11],
      [name |-> <<"d", "e", "c", "e", "m", "b", "e", "r">>, number |-> 12],
      [name |-> <<"j", "a", "n", "u", "a", "r", "y">>, number |-> 1],
      [name |-> <<"o", "c", "t", "o", "b", "e", "r">>, number |-> 10],
      [name |-> <<"a", "u", "g", "u", "s", "t">>, number |-> 8],
      [name |-> <<"m", "a", "r", "c", "h">>, number |-> 3],
      [name |-> <<"a", "p", "r", "i", "l">>, number |-> 4],
      [name |-> <<"j", "u", "n", "e">>, number |-> 6],
      [name |-> <<"j", "u", "l", "y">>, number |-> 7],
      [name |-> <<"m", "a", "y">>, number |-> 5]>>

GroupB == [ws |-> FALSE, alts |-> [k \in 1..Len(Months) |-> AnyCase(Months[k].name)]]
GroupI ==
    [ws |-> FALSE,
     alts |-> << <<{"1"}, DigitRange(0, 2)>>, <<{"0"}, DigitRange(1, 9)>>,
                 <<DigitRange(1, 9)>> >>]
Groupp == [ws |-> FALSE, alts |-> <<AnyCase(<<"a", "m">>), AnyCase(<<"p", "m">>)>>]

\* "%B %d, %Y"
MonthDayYearFormat == <<GroupB, WsPlus, Groupd, Lit(","), WsPlus, GroupY>>
\* "%I:%M %p"
ClockFormat == <<GroupI, Lit(":"), GroupM, WsPlus, Groupp>>

NoDate == [ok |-> FALSE, year |-> 0, month |-> 0, day |-> 0]
NoTime == [ok |-> FALSE, hour |-> 0, minute |-> 0]

\* The date in data, m being where the groups of "%B %d, %Y" end in it:
\* ValueError when the regex does not match, when unconverted data remains,
\* or when the fields are no real date.
DateMatched(data, m) ==
    LET Group(i) == SubSeq(data, (IF i = 1 THEN 0 ELSE m[i - 1]) + 1, m[i])
        name == FoldAll(Group(1))
        month == Months[CHOOSE k \in 1..Len(Months) : Months[k].name = name].number
        day == GroupValue(Group(3))
        year == DecValue(Group(6))
    IN  IF m = NoMatch THEN NoDate
        ELSE IF m[Len(m)] # Len(data) THEN NoDate
        ELSE IF year < MINYEAR \/ day > days_in_month(year, month) THEN NoDate
        ELSE [ok |-> TRUE, year |-> year, month |-> month, day |-> day]

\* datetime.strptime(data, "%B %d, %Y"): the date, or ValueError.
strptime_date(data) == DateMatched(data, Match(MonthDayYearFormat, 1, data, 0))

\* The time of day in data, m being where the groups of "%I:%M %p" end in
\* it.
TimeMatched(data, m) ==
    LET Group(i) == SubSeq(data, (IF i = 1 THEN 0 ELSE m[i - 1]) + 1, m[i])
        hour == DecValue(Group(1))
        minute == DecValue(Group(3))
        pm == FoldAll(Group(5)) = <<"p", "m">>
    IN  IF m = NoMatch THEN NoTime
        ELSE IF m[Len(m)] # Len(data) THEN NoTime
        ELSE [ok |-> TRUE,
              hour |-> IF pm THEN (IF hour = 12 THEN 12 ELSE hour + 12)
                       ELSE (IF hour = 12 THEN 0 ELSE hour),
              minute |-> minute]

\* datetime.strptime(data, "%I:%M %p"): the time of day, or ValueError.
strptime_time(data) == TimeMatched(data, Match(ClockFormat, 1, data, 0))

\* strftime("%Y"): the C library pads a year below 1000 to four digits or
\* does not (glibc does not).
strftime_Y(year, pads) == IF pads THEN D4(year) ELSE NatText(year)

\* parsed_date.strftime("%Y-%m-%d")
strftime_date(date, pads) ==
    strftime_Y(date.year, pads) \o <<"-">> \o D2(date.month) \o <<"-">> \o D2(date.day)

\* convert_to_iso_datetime returning (None, None).
NoValue == [iso |-> PyNone, display |-> PyNone]

\* (iso_format, display_format) of a date_str that read as parsed_date, and
\* of time_str, a str, whose strip() read as parsed_time or did not.
Formatted(date_str, time_str, pads, parsed_date, parsed_time) ==
    IF ~parsed_date.ok THEN NoValue
    ELSE IF Truthy(time_str) /\ parsed_time.ok
    THEN [iso |-> PyStr(strftime_date(parsed_date, pads) \o <<" ">> \o
                        TimeText(parsed_time.hour, parsed_time.minute, 0)),
          display |-> PyStr(strip(date_str) \o <<" ", "a", "t", " ">> \o strip(time_str.s))]
    ELSE [iso |-> PyStr(strftime_date(parsed_date, pads) \o <<" ">> \o TimeText(0, 0, 0)),
          display |-> PyStr(strip(date_str))]

\* convert_to_iso_datetime(date_str, time_str): (iso_format, display_format);
\* time_str is None or a str.
convert_to_iso_datetime(date_str, time_str, pads) ==
    Formatted(date_str, time_str, pads, strptime_date(strip(date_str)),
              IF Truthy(time_str) THEN strptime_time(strip(time_str.s)) ELSE NoTime)

\* What re.search(pattern, text) gives: no match, or the groups.
NoMatchIn == [found |-> FALSE, date |-> <<>>, time |-> PyNone]
Groups(date, time) == [found |-> TRUE, date |-> date, time |-> time]

\* The for loop over a list of patterns of which searches are the matches,
\* in the order of the list, from pattern k on: the first match that
\* converts is kept and ends the loop.
RECURSIVE FirstConverted(_, _, _)
FirstConverted(searches, k, pads) ==
    IF k > Len(searches) THEN NoValue
    ELSE LET converted ==
                 IF searches[k].found
                 THEN convert_to_iso_datetime(searches[k].date, searches[k].time, pads)
                 ELSE NoValue
         IN  IF Truthy(converted.iso) THEN converted
             ELSE FirstConverted(searches, k + 1, pads)

\* A date with its time first and the date-only patterns tried whatever the
\* first gave, the later value kept.
TimedThenPlain_Always(timed, plain, pads) ==
    LET with_time == FirstConverted(timed, 1, pads)
        without == FirstConverted(plain, 1, pads)
    IN  IF Truthy(without.iso) THEN without ELSE with_time

\* A date looked for with its time first, then, if not dates[...], without.
TimedThenPlain(timed, plain, pads) ==
    LET with_time == FirstConverted(timed, 1, pads)
    IN  IF Truthy(with_time.iso) THEN with_time ELSE FirstConverted(plain, 1, pads)

\* extract_claim_dates(text): the dictionary it returns.
extract_claim_dates(text, pads) ==
    LET incident == TimedThenPlain(text.incident_time, text.incident, pads)
        filed == TimedThenPlain(text.filed_time, text.filed, pads)
    IN  [incident_date |-> incident.iso,
         incident_date_display |-> incident.display,
         claim_filed_date |-> filed.iso,
         claim_filed_date_display |-> filed.display,
         policy_effective_date |-> FirstConverted(text.effective, 1, pads).iso,
         policy_expiry_date |-> FirstConverted(text.expiry, 1, pads).iso]

(***************************************************************************)
(* Documents given to extract_claim_dates                                   *)
(***************************************************************************)
\* Dates the k-th pattern of a list may capture and the conversion reads:
\* one per pattern, so that the pattern a value came from shows in it.
ReadableDate(k) ==
    CASE k = 1 -> <<"M", "a", "r", "c", "h", " ", "1", "1", ",", " ", "2", "0", "2", "4">>
      [] k = 2 -> <<"m", "a", "r", "c", "h", " ", "1", "2", ",", " ", " ", "2", "0", "2", "4">>
      [] OTHER -> <<"D", "e", "c", "e", "m", "b", "e", "r", " ", "3", ",", " ", "2", "0", "2", "4">>
\* Captured dates the conversion does not read: an abbreviated month, a day
\* the month does not have, no space after the comma.
UnreadableDates == {<<"M", "a", "r", " ", "1", "2", ",", " ", "2", "0", "2", "4">>, <<"F", "e", "b", "r", "u", "a", "r", "y", " ", "3", "0", ",", " ", "2", "0", "2", "4">>, <<"M", "a", "r", "c", "h", " ", "1", "2", ",", "2", "0", "2", "4">>}
\* A captured date before the year 1000.
EarlyDate == <<"M", "a", "r", "c", "h", " ", "1", "2", ",", " ", "0", "9", "9", "9">>

\* ([A-Za-z]+\s+\d{1,2},\s*\d{4}) matches the whole of chars.
DateCapture(chars) ==
    LET d == Len(chars) - 4
    IN  \E a \in 1..Len(chars) :
            /\ \A j \in 1..a : chars[j] \in Letters
            /\ \E b \in (a + 1)..Len(chars) :
                   /\ \A j \in (a + 1)..b : chars[j] \in Whitespace
                   /\ \E c \in {b + 1, b + 2} :
                          /\ c < d
                          /\ \A j \in (b + 1)..c : chars[j] \in DigitSet
                          /\ chars[c + 1] = ","
                          /\ \A j \in (c + 2)..d : chars[j] \in Whitespace
                          /\ \A j \in (d + 1)..Len(chars) : chars[j] \in DigitSet
\* (\d{1,2}:\d{2}\s*(?:AM|PM)) under re.IGNORECASE matches the whole of chars.
TimeCapture(chars) ==
    \E a \in 1..2 :
        /\ Len(chars) >= a + 5
        /\ \A j \in 1..a : chars[j] \in DigitSet
        /\ chars[a + 1] = ":"
        /\ chars[a + 2] \in DigitSet /\ chars[a + 3] \in DigitSet
        /\ \A j \in (a + 4)..(Len(chars) - 2) : chars[j] \in Whitespace
        /\ FoldAll(SubSeq(chars, Len(chars) - 1, Len(chars))) \in {<<"a", "m">>, <<"p", "m">>}

\* What the k-th pattern with a time group may find.
TimedSearches(k) ==
    {NoMatchIn}
        \cup {Groups(ReadableDate(k), PyStr(time)) : time \in {<<"2", ":", "4", "7", " ", "A", "M">>, <<"2", ":", "4", "7", "A", "M">>}}
        \cup {Groups(<<"M", "a", "r", " ", "1", "2", ",", " ", "2", "0", "2", "4">>, PyStr(<<"1", "2", ":", "0", "0", " ", "p", "m">>)), Groups(EarlyDate, PyStr(<<"1", "1", ":", "5", "9", " ", " ", "P", "M">>))}
\* What the k-th pattern without a time group may find.
PlainSearches(k) ==
    {NoMatchIn, Groups(ReadableDate(k), PyNone), Groups(EarlyDate, PyNone)}
        \cup {Groups(date, PyNone) : date \in IF k = 1 THEN UnreadableDates ELSE {<<"F", "e", "b", "r", "u", "a", "r", "y", " ", "3", "0", ",", " ", "2", "0", "2", "4">>}}

NoSearches(n) == [k \in 1..n |-> NoMatchIn]
Searches(n, timed) ==
    {searches \in [1..n -> UNION {TimedSearches(k) \cup PlainSearches(k) : k \in 1..n}] :
        \A k \in 1..n : searches[k] \in (IF timed THEN TimedSearches(k) ELSE PlainSearches(k))}

\* 'Policy Effective Date' contains 'Effective Date', 'Policy Expiry Date'
\* contains 'Expiry Date': where the first pattern matches, the second does.
Contained(searches) == searches[1].found => searches[2].found

EmptyText ==
    [incident_time |-> NoSearches(2), incident |-> NoSearches(3),
     filed_time |-> NoSearches(3), filed |-> NoSearches(3),
     effective |-> NoSearches(2), expiry |-> NoSearches(3)]
\* Documents that speak of the incident, of the filing, of the policy.
IncidentTexts ==
    {[EmptyText EXCEPT !.incident_time = timed, !.incident = plain] :
        timed \in Searches(2, TRUE),
        plain \in {s \in Searches(3, FALSE) : ~s[3].found \/ s[3].date = ReadableDate(3)}}
FiledTexts ==
    {[EmptyText EXCEPT !.filed_time = timed, !.filed = plain] :
        timed \in {s \in Searches(3, TRUE) : s[1] = NoMatchIn},
        plain \in {s \in Searches(3, FALSE) : s[3] = NoMatchIn}}
PolicyTexts ==
    {[EmptyText EXCEPT !.effective = effective, !.expiry = expiry] :
        effective \in {s \in Searches(2, FALSE) : Contained(s)},
        expiry \in {s \in Searches(3, FALSE) : Contained(s) /\ s[3] = NoMatchIn}}
Texts == IncidentTexts \cup FiledTexts \cup PolicyTexts

ExtractCalls ==
    {[op |-> "extract_claim_dates", text |-> text, pads |-> pads] :
        text \in Texts, pads \in BOOLEAN}

InitExtract ==
    /\ call \in ExtractCalls
    /\ pc = "called"
    /\ result = Blank
    /\ threads = [thread \in Threads |-> IdleThread]
    /\ locals = [frame \in Threads |-> NoLocals]
    /\ earlier = NoReturn
    /\ agent = IdleAgent
    /\ global_retriever_instance = NoInstance
    /\ calls = NoCalls
    /\ chroma = NoChroma

CallExtract ==
    /\ pc = "called"
    /\ call.op = "extract_claim_dates"
    /\ result' = extract_claim_dates(call.text, call.pads)
    /\ pc' = "returned"
    /\ UNCHANGED <<call, threads, locals, earlier, agent, global_retriever_instance, calls, chroma>>

NextExtract == CallExtract

SpecExtract == InitExtract /\ [][NextExtract]_vars

(***************************************************************************)
(* orchestrator_agent.py: OrchestratorAgent.classify_question and run.      *)
(* What the model and the experts answer is an input of each call.          *)
(***************************************************************************)
\* An exception: its class, whether the class derives from Exception (and
\* not only from BaseException), and str(e).
Exc(class, derived, message) == [class |-> class, derived |-> derived, message |-> message]
NoExc == Exc("", FALSE, <<>>)
\* What a call of the model or of an expert does: return a value or raise.
Returns(value) == [raises |-> FALSE, value |-> value, exception |-> NoExc]
Raises(exception) == [raises |-> TRUE, value |-> PyNone, exception |-> exception]

\* x.strip() of a value that is no str: AttributeError.
NoStrip(x) ==
    Exc("AttributeError", TRUE, <<"'">> \o TypeName(x) \o <<"'", " ", "o", "b", "j", "e", "c", "t", " ", "h", "a", "s", " ", "n", "o", " ", "a", "t", "t", "r", "i", "b", "u", "t", "e", " ", "'", "s", "t", "r", "i", "p", "'">>)
\* result += expert_response of a value that is no str: TypeError.
NoConcat(x) ==
    Exc("TypeError", TRUE, <<"c", "a", "n", " ", "o", "n", "l", "y", " ", "c", "o", "n", "c", "a", "t", "e", "n", "a", "t", "e", " ", "s", "t", "r", " ", "(", "n", "o", "t", " ", "\"">> \o TypeName(x) \o <<"\"", ")", " ", "t", "o", " ", "s", "t", "r">>)

\* response_text.startswith(prefix) for a prefix of one character.
startswith(chars, prefix) == Len(chars) > 0 /\ chars[1] = prefix
\* response_text.split(':', 1)[1].strip() if ':' in response_text else
\* response_text
Explanation(response_text) ==
    IF \E j \in 1..Len(response_text) : response_text[j] = ":"
    THEN LET colon == CHOOSE j \in 1..Len(response_text) :
                          /\ response_text[j] = ":"
                          /\ \A i \in 1..(j - 1) : response_text[i] # ":"
         IN  strip(SubSeq(response_text, colon + 1, Len(response_text)))
    ELSE response_text
Unclear == <<"3", ":", " ", "U", "n", "a", "b", "l", "e", " ", "t", "o", " ", "c", "l", "e", "a", "r", "l", "y", " ", "c", "l", "a", "s", "s", "i", "f", "y", " ", "t", "h", "e", " ", "q", "u", "e", "s", "t", "i", "o", "n">>

Classified(classification, explanation) ==
    [raised |-> FALSE, classification |-> classification, explanation |-> explanation,
     exception |-> NoExc]
Propagates(exception) ==
    [raised |-> TRUE, classification |-> 0, explanation |-> <<>>, exception |-> exception]

\* What the try block makes of an exception: `except Exception` takes the
\* classes derived from Exception and lets the others through
\* (KeyboardInterrupt, SystemExit).
ClassifyExcept(exception) ==
    IF exception.derived
    THEN Classified(3, <<"E", "r", "r", "o", "r", " ", "i", "n", " ", "c", "l", "a", "s", "s", "i", "f", "i", "c", "a", "t", "i", "o", "n", ":", " ">> \o exception.message)
    ELSE Propagates(exception)

\* classify_question(user_input), llm being what self.llm.invoke does.
classify_question(llm) ==
    IF llm.raises THEN ClassifyExcept(llm.exception)
    ELSE IF llm.value.t # "str" THEN ClassifyExcept(NoStrip(llm.value))
    ELSE LET response_text == strip(llm.value.s)
         IN  IF startswith(response_text, "1") THEN Classified(1, Explanation(response_text))
             ELSE IF startswith(response_text, "2") THEN Classified(2, Explanation(response_text))
             ELSE IF startswith(response_text, "3") THEN Classified(3, Explanation(response_text))
             ELSE Classified(3, Explanation(Unclear))

\* The string run returns: the classification box, then the expert's
\* response if one was asked; or the error string.
Output(classification, explanation, response) ==
    [kind |-> "result", classification |-> classification, explanation |-> explanation,
     response |-> response, error |-> <<>>]
ErrorOutput(exception) ==
    [kind |-> "error", classification |-> 0, explanation |-> <<>>, response |-> <<>>,
     error |-> exception.message]
RaisedOutput(exception) ==
    [kind |-> "raised", classification |-> 0, explanation |-> <<>>, response |-> <<>>,
     error |-> exception.message]

\* The expert run sends a classification to, with both kinds of question
\* sent to the Summarization Expert.
ExpertFor_AlwaysSummarization(classification) ==
    IF classification \in {1, 2} THEN <<"summarization_expert">> ELSE <<>>

\* The expert run sends a classification to: a sequence of at most one.
ExpertFor(classification) ==
    CASE classification = 1 -> <<"specific_task_expert">>
      [] classification = 2 -> <<"summarization_expert">>
      [] OTHER -> <<>>

\* run(message): the agent after the call. llm is what the model does, expert
\* what the expert does if it is asked.
run(message, llm, expert) ==
    LET classified == classify_question(llm)
        asked == ExpertFor(classified.classification)
        failure ==
            IF classified.raised THEN classified.exception
            ELSE IF asked = <<>> THEN NoExc
            ELSE IF expert.raises THEN expert.exception
            ELSE IF expert.value.t # "str" THEN NoConcat(expert.value)
            ELSE NoExc
    IN  [at |-> IF failure # NoExc /\ ~failure.derived THEN "raised" ELSE "returned",
         message |-> message,
         classification |-> classified.classification,
         explanation |-> classified.explanation,
         experts |-> IF classified.raised THEN <<>> ELSE asked,
         output |->
             IF failure = NoExc
             THEN Output(classified.classification, classified.explanation,
                         IF asked = <<>> THEN <<>> ELSE expert.value.s)
             ELSE IF failure.derived THEN ErrorOutput(failure)
             ELSE RaisedOutput(failure)]

\* What users type, the model replies and the experts return.
Messages == {<<"W", "h", "e", "n", "?">>, <<"S", "u", "m", "m", "a", "r", "i", "z", "e">>, <<"H", "e", "l", "l", "o">>}
Interrupts == {Exc("KeyboardInterrupt", FALSE, <<>>), Exc("SystemExit", FALSE, <<"1">>)}
Failures == {Exc("RuntimeError", TRUE, <<"b", "o", "o", "m">>)}
Replies ==
    {<<"1", ":", " ", "s", "p", "e", "c", "i", "f", "i", "c">>, <<" ", "2", ":", " ", "b", "r", "o", "a", "d", " ">>, <<"3", ":", " ", "o", "t", "h", "e", "r">>, <<"M", "a", "y", "b", "e", " ", "1">>, <<"1", "0">>, <<"2">>, <<"1", ":", "a", ":", "b">>, <<" ", " ">>, <<"\t", "1">>, <<"x", ":", " ", "1">>, <<>>}
LLMOutcomes ==
    {Returns(PyStr(reply)) : reply \in Replies}
        \cup {Returns(PyNone), Returns(PyList(1))}
        \cup {Raises(exception) : exception \in Failures \cup Interrupts}
ExpertOutcomes ==
    {Returns(PyStr(<<"a", "n", "s", "w", "e", "r">>)), Returns(PyNone)}
        \cup {Raises(exception) : exception \in Failures \cup Interrupts}

InitOrchestrator ==
    /\ call = NoCall
    /\ pc = "idle"
    /\ result = Blank
    /\ threads = [thread \in Threads |-> IdleThread]
    /\ locals = [frame \in Threads |-> NoLocals]
    /\ earlier = NoReturn
    /\ agent = IdleAgent
    /\ global_retriever_instance = NoInstance
    /\ calls = NoCalls
    /\ chroma = NoChroma

\* agent.classify_question(user_input); call keeps what was asked and what
\* the model did.
ClassifyQuestion ==
    \E user_input \in Messages, llm \in LLMOutcomes :
        LET classified == classify_question(llm)
        IN  /\ agent' =
                   [at |-> IF classified.raised THEN "raised" ELSE "classified",
                    message |-> user_input,
                    classification |-> classified.classification,
                    explanation |-> classified.explanation,
                    experts |-> <<>>,
                    output |-> IF classified.raised THEN RaisedOutput(classified.exception)
                               ELSE NoOutput]
            /\ call' = [op |-> "classify_question", a |-> user_input, llm |-> llm,
                         expert |-> Returns(PyNone)]
            /\ UNCHANGED <<pc, result, threads, locals, earlier,
                           global_retriever_instance, calls, chroma>>

\* agent.run(message); call keeps what was asked and what the model and the
\* expert did (the expert's part is unused when no expert is asked).
Run ==
    \E message \in Messages, llm \in LLMOutcomes, expert \in ExpertOutcomes :
        /\ agent' = run(message, llm, expert)
        /\ call' = [op |-> "run", a |-> message, llm |-> llm, expert |-> expert]
        /\ UNCHANGED <<pc, result, threads, locals, earlier,
                       global_retriever_instance, calls, chroma>>

NextOrchestrator == ClassifyQuestion \/ Run

SpecOrchestrator == InitOrchestrator /\ [][NextOrchestrator]_vars

(***************************************************************************)
(* hierarchical_retriever.py: get_claim_retriever and the module global     *)
(* _global_retriever_instance.  Whether the constructor and the build       *)
(* succeed is an input of each call.                                        *)
(***************************************************************************)
MaxCalls == 3

\* HierarchicalClaimRetriever(pdf_path=pdf_path, use_chromadb=use_chromadb):
\* the instance after __init__, self.retriever = None (0). id tells the
\* instances apart.
HierarchicalClaimRetriever(id, pdf_path, use_chromadb) ==
    [id |-> id, pdf_path |-> pdf_path, use_chromadb |-> use_chromadb, retriever |-> 0]

\* self._can_load_from_existing()
can_load_from_existing(self, store) ==
    self.use_chromadb /\ store.count > 0 /\ store.docstore

\* Where a build may fail: nowhere, while the PDF is loaded (before anything
\* is stored), while the index is built (after the docstore is persisted).
Faults == {"none", "load_pdf", "build_index"}

\* The collection after `if force_rebuild and self.use_chromadb and
\* self.chroma_collection: ... delete_collection ... create_collection`.
Cleared(self, force_rebuild, store) ==
    IF force_rebuild /\ self.use_chromadb /\ store.count > 0
    THEN [store EXCEPT !.count = 0]
    ELSE store

\* self.build_all(force_rebuild): the instance and the stored collection
\* after it, whether it raised, the retriever it returned (fresh) and the
\* way it took.
build_all(self, force_rebuild, fault, store, fresh) ==
    IF ~force_rebuild /\ can_load_from_existing(self, store)
    THEN IF fault = "none"
         THEN [self |-> [self EXCEPT !.retriever = fresh], chroma |-> store,
               raised |-> FALSE, value |-> fresh, path |-> "load"]
         ELSE [self |-> self, chroma |-> store, raised |-> TRUE, value |-> 0,
               path |-> "load"]
    ELSE LET cleared == Cleared(self, force_rebuild, store)
             persisted == IF self.use_chromadb THEN [cleared EXCEPT !.docstore = TRUE]
                          ELSE cleared
             indexed == IF self.use_chromadb THEN [persisted EXCEPT !.count = 1]
                        ELSE persisted
         IN  CASE fault = "load_pdf" ->
                      [self |-> self, chroma |-> cleared, raised |-> TRUE, value |-> 0,
                       path |-> "scratch"]
               [] fault = "build_index" ->
                      [self |-> self, chroma |-> persisted, raised |-> TRUE, value |-> 0,
                       path |-> "scratch"]
               [] OTHER ->
                      [self |-> [self EXCEPT !.retriever = fresh], chroma |-> indexed,
                       raised |-> FALSE, value |-> fresh, path |-> "scratch"]

\* force_rebuild of the build of a new instance with the flag never passed.
ForceRebuild_Never(rebuild) == FALSE

\* build_all(force_rebuild=rebuild)
ForceRebuild(rebuild) == rebuild

\* The global with the new instance assigned only once its build returned.
Assigned_AfterBuild(before, new, built) ==
    IF built.raised THEN before ELSE built.self

\* _global_retriever_instance = HierarchicalClaimRetriever(...) runs before
\* build_all: the global is the new instance whatever the build does.
Assigned(before, new, built) == built.self

\* get_claim_retriever(rebuild, pdf_path, use_chromadb): the global, the
\* stored collection and the record of the call after it. constructs tells
\* whether __init__ returns, fault where build_all fails.
get_claim_retriever(rebuild, pdf_path, use_chromadb, constructs, fault) ==
    LET before == global_retriever_instance
        asked == [rebuild |-> rebuild, pdf_path |-> pdf_path, use_chromadb |-> use_chromadb,
                  before |-> before]
    IN  IF before = NoInstance \/ rebuild
        THEN IF ~constructs
             THEN [instance |-> before, chroma |-> chroma, instances |-> calls.instances,
                   last |-> [branch |-> "new", constructed |-> FALSE, build_all |-> "none",
                             on |-> NoInstance, outcome |-> "raised", value |-> 0] @@ asked]
             ELSE LET new == HierarchicalClaimRetriever(calls.instances + 1, pdf_path,
                                                        use_chromadb)
                      built == build_all(new, ForceRebuild(rebuild), fault, chroma,
                                         calls.retrievers + 1)
                  IN  [instance |-> Assigned(before, new, built), chroma |-> built.chroma,
                       instances |-> calls.instances + 1,
                       last |-> [branch |-> "new", constructed |-> TRUE,
                                 build_all |-> IF ForceRebuild(rebuild) THEN "force"
                                               ELSE "plain",
                                 on |-> new,
                                 outcome |-> IF built.raised THEN "raised" ELSE "returned",
                                 value |-> built.value] @@ asked]
        ELSE IF before.retriever = 0
        THEN LET built == build_all(before, FALSE, fault, chroma, calls.retrievers + 1)
             IN  [instance |-> built.self, chroma |-> built.chroma,
                  instances |-> calls.instances,
                  last |-> [branch |-> "existing", constructed |-> FALSE,
                            build_all |-> "plain", on |-> before,
                            outcome |-> IF built.raised THEN "raised" ELSE "returned",
                            value |-> built.value] @@ asked]
        ELSE [instance |-> before, chroma |-> chroma, instances |-> calls.instances,
              last |-> [branch |-> "cached", constructed |-> FALSE, build_all |-> "none",
                        on |-> NoInstance, outcome |-> "returned",
                        value |-> before.retriever] @@ asked]

PdfPaths == {"insurance_claim_case.pdf", "other_claim.pdf"}

InitRetriever ==
    /\ call = NoCall
    /\ pc = "idle"
    /\ result = Blank
    /\ threads = [thread \in Threads |-> IdleThread]
    /\ locals = [frame \in Threads |-> NoLocals]
    /\ earlier = NoReturn
    /\ agent = IdleAgent
    /\ global_retriever_instance = NoInstance
    /\ calls = NoCalls
    /\ chroma \in [count : {0, 1}, docstore : BOOLEAN]

\* One call of get_claim_retriever taking the given branch.
GetClaimRetriever(branch) ==
    /\ calls.count < MaxCalls
    /\ \E rebuild \in BOOLEAN, pdf_path \in PdfPaths, use_chromadb \in BOOLEAN,
          constructs \in BOOLEAN, fault \in Faults :
           LET after == get_claim_retriever(rebuild, pdf_path, use_chromadb, constructs,
                                            fault)
           IN  /\ after.last.branch = branch
               /\ global_retriever_instance' = after.instance
               /\ chroma' = after.chroma
               /\ calls' =
                      [count |-> calls.count + 1,
                       instances |-> after.instances,
                       retrievers |-> IF after.last.outcome = "returned"
                                         /\ after.last.branch # "cached"
                                      THEN calls.retrievers + 1 ELSE calls.retrievers,
                       last |-> after.last]
    /\ UNCHANGED <<call, pc, result, threads, locals, earlier, agent>>

\* if _global_retriever_instance is None or rebuild: ...
NewRetriever == GetClaimRetriever("new")
\* if _global_retriever_instance.retriever is None: ...
BuildExisting == GetClaimRetriever("existing")
\* return _global_retriever_instance.retriever
CachedRetriever == GetClaimRetriever("cached")

NextRetriever == NewRetriever \/ BuildExisting \/ CachedRetriever

SpecRetriever == InitRetriever /\ [][NextRetriever]_vars

(***************************************************************************)
(* Properties                                                               *)
(***************************************************************************)
Returned(op) == pc = "returned" /\ call.op = op

\* The arguments of the call as dates and as timestamps.
DateA == Parsed(call.a, DateFormat)
DateB == Parsed(call.b, DateFormat)
StampA == Parsed(call.a, DateTimeFormat)
StampB == Parsed(call.b, DateTimeFormat)

\* deadline_days passes validation: it is there and coerces to an integer
\* that is not negative.
DeadlineValid == call.c.t # "none" /\ int(call.c).exc = "" /\ int(call.c).n >= 0

\* A compliance call whose inputs pass validation; event_date is call.a and
\* reference_date is call.b.
ComplianceValid == DateA.ok /\ DateB.ok /\ DeadlineValid

\* diff = (event_date - reference_date) in days, and the deadline.
Diff == DateA.ord - DateB.ord
Deadline == int(call.c).n

\* C1: a compliance call whose inputs pass validation returns exactly one of
\* INVALID (diff < 0), COMPLIANT (0 <= diff <= deadline_days) and
\* NON-COMPLIANT (diff > deadline_days), chosen in that priority order.
C1_ThreeOutcomes ==
    Returned("check_policy_compliance") /\ ComplianceValid =>
        /\ result.kind \in {"INVALID", "COMPLIANT", "NON-COMPLIANT"}
        /\ result.kind = "INVALID" <=> Diff < 0
        /\ result.kind = "COMPLIANT" <=> (0 <= Diff /\ Diff <= Deadline)
        /\ result.kind = "NON-COMPLIANT" <=> Diff > Deadline

\* An event before the reference date, which also satisfies
\* diff <= deadline_days, has been classified INVALID.
C1_Witness ==
    /\ Returned("check_policy_compliance") /\ ComplianceValid
    /\ Diff < 0 /\ Deadline > 0
    /\ result.kind = "INVALID"

\* C2: an event exactly deadline_days days after the reference is COMPLIANT
\* with 0 days remaining, and one deadline_days + 1 days after it is
\* NON-COMPLIANT with 1 day overdue.
C2_Boundary ==
    Returned("check_policy_compliance") /\ ComplianceValid =>
        /\ Diff = Deadline =>
              result.kind = "COMPLIANT" /\ result.days_remaining = 0
        /\ Diff = Deadline + 1 =>
              result.kind = "NON-COMPLIANT" /\ result.days_overdue = 1

\* Both sides of the boundary of a deadline of at least one day occur.
C2_Witness ==
    /\ Returned("check_policy_compliance") /\ ComplianceValid
    /\ Deadline >= 1 /\ Diff = Deadline
    /\ result.kind = "COMPLIANT"

\* A timestamp pair that is valid and in order, and its elapsed time in
\* whole seconds.
StampsInOrder == StampA.ok /\ StampB.ok /\ ~dt_less(StampB, StampA)
Elapsed == (StampB.ord - StampA.ord) * 86400 + (StampB.sec - StampA.sec)

\* C3: for a valid timestamp pair with end >= start, days is the number of
\* whole elapsed days, 0 <= hours < 24, 0 <= minutes < 60, and the breakdown
\* is the elapsed time with the leftover seconds dropped:
\* days*86400 + hours*3600 + minutes*60 <= total_seconds < the same + 60.
C3_Decomposition ==
    Returned("calculate_timeline_duration") /\ StampsInOrder =>
        LET whole == result.days * 86400 + result.hours * 3600 + result.minutes * 60
        IN  /\ result.kind = "Duration"
            /\ result.days = Elapsed \div 86400
            /\ 0 <= result.hours /\ result.hours < 24
            /\ 0 <= result.minutes /\ result.minutes < 60
            /\ whole <= Elapsed /\ Elapsed < whole + 60

\* A duration of more than a day with leftover seconds has been broken down.
C3_Witness ==
    /\ Returned("calculate_timeline_duration") /\ StampsInOrder
    /\ Elapsed > 86400 /\ Elapsed % 60 # 0
    /\ result.kind = "Duration" /\ result.days >= 1 /\ result.hours > 0

\* C4: for a valid timestamp pair with end >= start, the Total figure is the
\* whole elapsed time in hours, dropped seconds included, to two decimals:
\* in hundredths of an hour it is a hundredth nearest to total_seconds / 36.
C4_TotalHours ==
    Returned("calculate_timeline_duration") /\ StampsInOrder =>
        /\ result.kind = "Duration"
        /\ 36 * result.total_hours - 18 <= Elapsed
        /\ Elapsed <= 36 * result.total_hours + 18

\* A Total that the breakdown alone (without its dropped seconds) would not
\* round to.
C4_Witness ==
    /\ Returned("calculate_timeline_duration") /\ StampsInOrder
    /\ result.kind = "Duration"
    /\ Elapsed % 60 # 0
    /\ 36 * result.total_hours - 18 > Elapsed - (Elapsed % 60)

\* A date pair that is valid and in order.
DatesInOrder == DateA.ok /\ DateB.ok /\ DateA.ord <= DateB.ord

\* The string returned reports the three counts.
CountsReturned == result.kind = "Business days"

\* C5: for every valid date pair with end_date >= start_date the three
\* counts returned satisfy business_days + weekend_days = calendar_days, and
\* none of them is negative.
C5_Additivity ==
    Returned("calculate_business_days") /\ DatesInOrder =>
        /\ CountsReturned
        /\ result.business_days + result.weekend_days = result.calendar_days
        /\ result.business_days >= 0
        /\ result.weekend_days >= 0
        /\ result.calendar_days >= 0

\* C6: both endpoints are counted, calendar_days = (end_date - start_date) + 1;
\* when start_date = end_date the result has 1 calendar day, which is the one
\* business day (Monday-Friday) or the one weekend day (Saturday, Sunday).
C6_InclusiveCount ==
    Returned("calculate_business_days") /\ DatesInOrder =>
        /\ CountsReturned
        /\ result.calendar_days = (DateB.ord - DateA.ord) + 1
        /\ DateA.ord = DateB.ord =>
              /\ result.calendar_days = 1
              /\ result.business_days = (IF weekday(DateA.ord) < 5 THEN 1 ELSE 0)
              /\ result.weekend_days = (IF weekday(DateA.ord) < 5 THEN 0 ELSE 1)

\* The call that ends one calendar day after this one.
OneDayLater(later_end) ==
    LET e == Parsed(later_end, DateFormat) IN e.ok /\ e.ord = DateB.ord + 1

\* C7: for every valid start_date and end_date >= start_date, moving end_date
\* one calendar day later makes calendar_days grow by exactly 1 and
\* business_days by 0 or 1.
C7_Monotone ==
    Returned("calculate_business_days") /\ DatesInOrder =>
        \A later_end \in {x \in DateInputs : OneDayLater(x)} :
            LET later == calculate_business_days(call.a, later_end)
            IN  /\ CountsReturned
                /\ later.kind = "Business days"
                /\ later.calendar_days = result.calendar_days + 1
                /\ later.business_days - result.business_days \in {0, 1}

\* What holds of the counts whenever the scan ends without leaving the
\* calendar: the relations of C5, C6 and C7 on the strings that report
\* counts.
CountsConsistent ==
    Returned("calculate_business_days") /\ CountsReturned =>
        /\ DatesInOrder
        /\ result.business_days + result.weekend_days = result.calendar_days
        /\ result.business_days >= 0 /\ result.weekend_days >= 0
        /\ result.calendar_days = (DateB.ord - DateA.ord) + 1
        /\ \A later_end \in {x \in DateInputs : OneDayLater(x)} :
              LET later == calculate_business_days(call.a, later_end)
              IN  later.kind = "Business days" =>
                     /\ later.calendar_days = result.calendar_days + 1
                     /\ later.business_days - result.business_days \in {0, 1}

\* A range that ends on date.max is answered with the text of the overflow
\* and not with counts.
ScanLeavesCalendar ==
    Returned("calculate_business_days") /\ DatesInOrder =>
        (CountsReturned <=> DateB.ord < MaxOrdinal)

\* The message of a format check on a value x that is there: the format
\* message for a str, the text of the exception for any other type.
FormatFailure(x, format_message, caught_message) ==
    IF x.t = "str" THEN result.kind = format_message /\ result.raised = ""
    ELSE result.kind = caught_message /\ result.raised = "AttributeError"

\* C8: calculate_timeline_duration checks (1) both inputs present, (2) start
\* parses, (3) end parses, (4) end >= start, and returns the message of the
\* first check that fails; two malformed timestamps give the start_datetime
\* message, and the ordering message is given for parsed values only.
C8_DurationOrder ==
    Returned("calculate_timeline_duration") =>
        IF ~Truthy(call.a) \/ ~Truthy(call.b)
        THEN result.kind = "Error: Both start_datetime and end_datetime are required"
        ELSE IF ~StampA.ok
        THEN FormatFailure(call.a, "Error: Invalid start_datetime format",
                           "Error calculating duration")
        ELSE IF ~StampB.ok
        THEN FormatFailure(call.b, "Error: Invalid end_datetime format",
                           "Error calculating duration")
        ELSE (result.kind = "Error: End datetime is before start datetime")
                <=> dt_less(StampB, StampA)

\* Two malformed timestamps have been answered.
C8_Witness ==
    /\ Returned("calculate_timeline_duration")
    /\ call.a \in MalformedDateTimes /\ call.b \in MalformedDateTimes
    /\ result.kind = "Error: Invalid start_datetime format"

\* The deadline_days errors: missing, not an integer, negative.
DeadlineMissing == call.c.t = "none"
DeadlineNotInteger == call.c.t # "none" /\ int(call.c).exc # ""
DeadlineNegative == call.c.t # "none" /\ int(call.c).exc = "" /\ int(call.c).n < 0

\* C9: check_policy_compliance checks, in this order: missing event or
\* reference date, missing deadline, non-integer deadline, negative
\* deadline, event_date parse, reference_date parse; so an invalid
\* deadline_days with a malformed date gives the deadline_days error.
C9_ComplianceOrder ==
    Returned("check_policy_compliance") =>
        IF ~Truthy(call.a) \/ ~Truthy(call.b)
        THEN result.kind = "Error: Both event_date and reference_date are required"
        ELSE IF DeadlineMissing
        THEN result.kind = "Error: deadline_days is required"
        ELSE IF DeadlineNotInteger
        THEN \/ result.kind = "Error: deadline_days must be an integer"
             \/ /\ result.kind = "Error checking policy compliance"
                /\ result.raised = int(call.c).exc
        ELSE IF DeadlineNegative
        THEN result.kind = "Error: deadline_days must be positive"
        ELSE IF ~DateA.ok
        THEN FormatFailure(call.a, "Error: Invalid event_date format",
                           "Error checking policy compliance")
        ELSE IF ~DateB.ok
        THEN FormatFailure(call.b, "Error: Invalid reference_date format",
                           "Error checking policy compliance")
        ELSE result.kind \in {"INVALID", "COMPLIANT", "NON-COMPLIANT"}

\* A negative deadline given with a malformed event_date has been answered
\* with the deadline message.
C9_Witness ==
    /\ Returned("check_policy_compliance")
    /\ call.a \in MalformedDates /\ Truthy(call.b) /\ DeadlineNegative
    /\ result.kind = "Error: deadline_days must be positive"

\* The strings the three tools return, and those that are error messages.
ErrorStrings ==
    {"Error: Both start_datetime and end_datetime are required",
     "Error: Invalid start_datetime format",
     "Error: Invalid end_datetime format",
     "Error: End datetime is before start datetime",
     "Error calculating duration",
     "Error: Both start_date and end_date are required",
     "Error: Invalid start_date format",
     "Error: Invalid end_date format",
     "Error: End date is before start date",
     "Error calculating business days",
     "Error: Both event_date and reference_date are required",
     "Error: deadline_days is required",
     "Error: deadline_days must be an integer",
     "Error: deadline_days must be positive",
     "Error: Invalid event_date format",
     "Error: Invalid reference_date format",
     "Error checking policy compliance"}

ComputedStrings == {"Duration", "Business days", "INVALID", "COMPLIANT", "NON-COMPLIANT"}

\* Some validation of the call fails.
ValidationFails ==
    \/ ~Truthy(call.a) \/ ~Truthy(call.b)
    \/ /\ call.op = "calculate_timeline_duration"
       /\ (~StampA.ok \/ ~StampB.ok \/ dt_less(StampB, StampA))
    \/ /\ call.op = "calculate_business_days"
       /\ (~DateA.ok \/ ~DateB.ok \/ dt_less(DateB, DateA))
    \/ /\ call.op = "check_policy_compliance"
       /\ (~DeadlineValid \/ ~DateA.ok \/ ~DateB.ok)

\* C10: no exception leaves any of the three operations: whatever the
\* inputs (empty, malformed, reversed, wrongly typed), the call returns a
\* string, and an error message when a validation fails.
C10_NoException ==
    pc = "returned" =>
        /\ result.kind \in ErrorStrings \cup ComputedStrings
        /\ ValidationFails => result.kind \in ErrorStrings

\* An exception raised inside a call (a wrongly typed argument) has been
\* turned into the returned string.
C10_Witness ==
    /\ pc = "returned"
    /\ call.a \in WrongTypes
    /\ result.raised = "AttributeError"
    /\ result.kind \in ErrorStrings

\* The string returned is the ordering error of the operation.
OrderingError ==
    result.kind \in {"Error: End datetime is before start datetime",
                     "Error: End date is before start date"}

\* C11: in calculate_timeline_duration and calculate_business_days the
\* ordering error is returned exactly when the parsed end is strictly before
\* the parsed start; end equal to start is a success (duration: 0 days,
\* 0 hours, 0 minutes, total 0.00 hours; business days: a one-day range),
\* never an error.
C11_OrderingError ==
    /\ Returned("calculate_timeline_duration") /\ StampA.ok /\ StampB.ok =>
          /\ OrderingError <=> dt_less(StampB, StampA)
          /\ Elapsed = 0 =>
                /\ result.kind = "Duration"
                /\ result.days = 0 /\ result.hours = 0 /\ result.minutes = 0
                /\ result.total_hours = 0
    /\ Returned("calculate_business_days") /\ DateA.ok /\ DateB.ok =>
          /\ OrderingError <=> DateB.ord < DateA.ord
          /\ DateA.ord = DateB.ord =>
                /\ CountsReturned
                /\ result.calendar_days = 1

\* What holds of the ordering check: the ordering error is returned exactly
\* for a reversed pair, equal timestamps give the zero duration, and a
\* one-day range gives counts unless the day is date.max.
OrderingChecked ==
    /\ Returned("calculate_timeline_duration") /\ StampA.ok /\ StampB.ok =>
          /\ OrderingError <=> dt_less(StampB, StampA)
          /\ Elapsed = 0 =>
                /\ result.kind = "Duration"
                /\ result.days = 0 /\ result.hours = 0 /\ result.minutes = 0
                /\ result.total_hours = 0
    /\ Returned("calculate_business_days") /\ DateA.ok /\ DateB.ok =>
          /\ OrderingError <=> DateB.ord < DateA.ord
          /\ DateA.ord = DateB.ord /\ DateB.ord < MaxOrdinal =>
                /\ CountsReturned
                /\ result.calendar_days = 1

\* The call was answered by the validation of deadline_days.
DeadlineRejected ==
    \/ result.kind \in {"Error: deadline_days is required",
                        "Error: deadline_days must be an integer",
                        "Error: deadline_days must be positive"}
    \/ result.kind = "Error checking policy compliance" /\ result.raised = "OverflowError"

\* deadline_days is a number below zero.
NegativeNumber(x) == x.t \in {"int", "float"} /\ x.n < 0

\* C12: check_policy_compliance accepts deadline_days exactly when it coerces
\* to an integer >= 0: every negative value returns an error and is never
\* classified, and deadline_days = 0 is accepted, making an event on the
\* reference date COMPLIANT and any later event NON-COMPLIANT.
C12_DeadlineAccepted ==
    Returned("check_policy_compliance") /\ Truthy(call.a) /\ Truthy(call.b) =>
        /\ ~DeadlineRejected <=> DeadlineValid
        /\ NegativeNumber(call.c) => result.kind \in ErrorStrings
        /\ DateA.ok /\ DateB.ok /\ call.c = PyInt(0) =>
              /\ Diff = 0 => result.kind = "COMPLIANT"
              /\ Diff > 0 => result.kind = "NON-COMPLIANT"

\* What holds of the deadline check: it rejects exactly the values that do
\* not coerce to an integer >= 0, so a number is rejected as negative
\* when its truncation toward zero is, and 0 is a deadline.
DeadlineChecked ==
    Returned("check_policy_compliance") /\ Truthy(call.a) /\ Truthy(call.b) =>
        /\ ~DeadlineRejected <=> DeadlineValid
        /\ NegativeNumber(call.c) /\ int(call.c).n < 0 => DeadlineRejected
        /\ DateA.ok /\ DateB.ok /\ call.c = PyInt(0) =>
              /\ Diff = 0 => result.kind = "COMPLIANT"
              /\ Diff > 0 => result.kind = "NON-COMPLIANT"

\* The string the call returned.
Text == Render(call, result)

\* sub in s
Contains(s, sub) ==
    \E k \in 0..(Len(s) - Len(sub)) : \A j \in 1..Len(sub) : s[k + j] = sub[j]

\* The markers of the outcome kinds, in the order a caller tests them.
Markers == <<"Error", "INVALID", "NON-COMPLIANT", "COMPLIANT">>

MarkerChars(m) ==
    CASE m = "Error" -> <<"E", "r", "r", "o", "r">>
      [] m = "INVALID" -> <<"I", "N", "V", "A", "L", "I", "D">>
      [] m = "NON-COMPLIANT" -> <<"N", "O", "N", "-", "C", "O", "M", "P", "L", "I", "A", "N", "T">>
      [] OTHER -> <<"C", "O", "M", "P", "L", "I", "A", "N", "T">>

HasMarker(m) == Contains(Text, MarkerChars(m))

\* The outcome kind of the returned string, named by its marker.
OwnMarker == IF result.kind \in ErrorStrings THEN "Error" ELSE result.kind

\* The first marker, in the order of Markers, that the string contains.
FirstMarker ==
    LET present == {k \in 1..Len(Markers) : HasMarker(Markers[k])}
    IN  IF present = {} THEN "none"
        ELSE Markers[CHOOSE k \in present : \A other \in present : k <= other]

\* C13 as stated: the outcome kinds of a compliance call are told apart by
\* the presence of the substrings "Error", "INVALID", "NON-COMPLIANT" and
\* "COMPLIANT": each returned string contains the marker of its own kind and
\* no marker of another kind.
C13_MarkerPresence ==
    Returned("check_policy_compliance") =>
        \A k \in 1..Len(Markers) : HasMarker(Markers[k]) <=> Markers[k] = OwnMarker

\* C13: each string a compliance call returns contains the marker of its
\* own kind, and testing the markers in the order "Error", "INVALID",
\* "NON-COMPLIANT", "COMPLIANT", the first one present deciding, assigns the
\* string to its own kind.
C13_MarkersInOrder ==
    Returned("check_policy_compliance") =>
        /\ HasMarker(OwnMarker)
        /\ FirstMarker = OwnMarker

\* A NON-COMPLIANT string, which holds the marker COMPLIANT too, and is
\* told from a COMPLIANT one by the order of the tests.
C13_Witness ==
    /\ Returned("check_policy_compliance")
    /\ result.kind = "NON-COMPLIANT"
    /\ HasMarker("NON-COMPLIANT") /\ HasMarker("COMPLIANT")
    /\ FirstMarker = "NON-COMPLIANT"

\* The pieces of the compliance strings that carry the numbers.
OccurredText(days) ==
    <<":", " ", "E", "v", "e", "n", "t", " ", "o", "c", "c", "u", "r", "r", "e", "d", " ">> \o IntText(days) \o
    <<" ", "d", "a", "y", "s", " ", "a", "f", "t", "e", "r", " ", "r", "e", "f", "e", "r", "e", "n", "c", "e", " ", "d", "a", "t", "e", ".", " ">>
RemainingText(days) ==
    <<"S", "t", "a", "t", "u", "s", ":", " ", "W", "i", "t", "h", "i", "n", " ", "d", "e", "a", "d", "l", "i", "n", "e", " ", "(">> \o IntText(days) \o
    <<" ", "d", "a", "y", "s", " ", "r", "e", "m", "a", "i", "n", "i", "n", "g", ")">>
OverdueText(days) ==
    <<"S", "t", "a", "t", "u", "s", ":", " ", "E", "X", "C", "E", "E", "D", "E", "D", " ", "d", "e", "a", "d", "l", "i", "n", "e", " ", "b", "y", " ">> \o
    IntText(days) \o <<" ", "d", "a", "y", "s">>
BeforeText(days) ==
    <<")", " ", "i", "s", " ">> \o IntText(days) \o
    <<" ", "d", "a", "y", "s", " ", "B", "E", "F", "O", "R", "E", " ", "r", "e", "f", "e", "r", "e", "n", "c", "e", " ", "d", "a", "t", "e", " ", "(">>
DeadlineText(days) ==
    <<"D", "e", "a", "d", "l", "i", "n", "e", ":", " ">> \o IntText(days) \o <<" ", "d", "a", "y", "s", ".", " ", "S", "t", "a", "t", "u", "s", ":", " ">>

\* C14: the numbers check_policy_compliance reports are: for COMPLIANT, days
\* elapsed = diff and days remaining = deadline_days - diff, which lies in
\* [0, deadline_days]; for NON-COMPLIANT, days elapsed = diff and days overdue
\* = diff - deadline_days, which is >= 1; for INVALID, the absolute value of
\* diff, which is >= 1 and is not printed as a negative number.
C14_ReportedNumbers ==
    Returned("check_policy_compliance") /\ ComplianceValid =>
        /\ result.kind = "COMPLIANT" =>
              /\ Deadline - Diff \in 0..Deadline
              /\ Contains(Text, OccurredText(Diff))
              /\ Contains(Text, DeadlineText(Deadline))
              /\ Contains(Text, RemainingText(Deadline - Diff))
        /\ result.kind = "NON-COMPLIANT" =>
              /\ Diff - Deadline >= 1
              /\ Contains(Text, OccurredText(Diff))
              /\ Contains(Text, DeadlineText(Deadline))
              /\ Contains(Text, OverdueText(Diff - Deadline))
        /\ result.kind = "INVALID" =>
              /\ Diff < 0
              /\ -Diff >= 1
              /\ Contains(Text, BeforeText(-Diff))

\* An event 2 days before the reference date has been answered with the
\* count 2, printed without a sign.
C14_Witness ==
    /\ Returned("check_policy_compliance") /\ ComplianceValid
    /\ result.kind = "INVALID"
    /\ Diff = -2
    /\ Contains(Text, BeforeText(2))

\* The conditions under which the checks of the call in progress fail.
Missing == ~Truthy(call.a) \/ ~Truthy(call.b)
Malformed(x, parsed) == Truthy(x) /\ x.t = "str" /\ ~parsed.ok

\* The format message of a field: it names the field and quotes the value.
NamesField(field, x) == Contains(Text, field \o PyText(x) \o <<"'">>)

\* C15: each error condition of an operation returns its own message, so
\* the message identifies the check that failed, and a format error names
\* the field that failed to parse: the messages for missing input,
\* malformed first date, malformed second date and reversed order or bad
\* deadline are returned each under its own condition only.
C15_DistinctMessages ==
    pc = "returned" =>
        /\ result.kind \in {"Error: Both start_datetime and end_datetime are required",
                            "Error: Both start_date and end_date are required",
                            "Error: Both event_date and reference_date are required"}
              <=> Missing
        /\ result.kind = "Error: Invalid start_datetime format" =>
              /\ Malformed(call.a, StampA)
              /\ NamesField(<<"I", "n", "v", "a", "l", "i", "d", " ", "s", "t", "a", "r", "t", "_", "d", "a", "t", "e", "t", "i", "m", "e", " ", "f", "o", "r", "m", "a", "t", " ", "'">>, call.a)
        /\ result.kind = "Error: Invalid end_datetime format" =>
              /\ StampA.ok /\ Malformed(call.b, StampB)
              /\ NamesField(<<"I", "n", "v", "a", "l", "i", "d", " ", "e", "n", "d", "_", "d", "a", "t", "e", "t", "i", "m", "e", " ", "f", "o", "r", "m", "a", "t", " ", "'">>, call.b)
        /\ result.kind = "Error: End datetime is before start datetime" =>
              StampA.ok /\ StampB.ok /\ dt_less(StampB, StampA)
        /\ result.kind = "Error: Invalid start_date format" =>
              /\ Malformed(call.a, DateA)
              /\ NamesField(<<"I", "n", "v", "a", "l", "i", "d", " ", "s", "t", "a", "r", "t", "_", "d", "a", "t", "e", " ", "f", "o", "r", "m", "a", "t", " ", "'">>, call.a)
        /\ result.kind = "Error: Invalid end_date format" =>
              /\ DateA.ok /\ Malformed(call.b, DateB)
              /\ NamesField(<<"I", "n", "v", "a", "l", "i", "d", " ", "e", "n", "d", "_", "d", "a", "t", "e", " ", "f", "o", "r", "m", "a", "t", " ", "'">>, call.b)
        /\ result.kind = "Error: End date is before start date" =>
              DateA.ok /\ DateB.ok /\ dt_less(DateB, DateA)
        /\ result.kind = "Error: deadline_days is required" => ~Missing /\ DeadlineMissing
        /\ result.kind = "Error: deadline_days must be an integer" =>
              ~Missing /\ DeadlineNotInteger
        /\ result.kind = "Error: deadline_days must be positive" =>
              ~Missing /\ DeadlineNegative
        /\ result.kind = "Error: Invalid event_date format" =>
              /\ DeadlineValid /\ Malformed(call.a, DateA)
              /\ NamesField(<<"I", "n", "v", "a", "l", "i", "d", " ", "e", "v", "e", "n", "t", "_", "d", "a", "t", "e", " ", "f", "o", "r", "m", "a", "t", " ", "'">>, call.a)
        /\ result.kind = "Error: Invalid reference_date format" =>
              /\ DeadlineValid /\ DateA.ok /\ Malformed(call.b, DateB)
              /\ NamesField(<<"I", "n", "v", "a", "l", "i", "d", " ", "r", "e", "f", "e", "r", "e", "n", "c", "e", "_", "d", "a", "t", "e", " ", "f", "o", "r", "m", "a", "t", " ", "'">>, call.b)

\* A second date that does not parse, after a first one that does, has been
\* answered with the message that names end_date.
C15_Witness ==
    /\ Returned("calculate_business_days")
    /\ DateA.ok /\ Malformed(call.b, DateB)
    /\ result.kind = "Error: Invalid end_date format"
    /\ NamesField(<<"I", "n", "v", "a", "l", "i", "d", " ", "e", "n", "d", "_", "d", "a", "t", "e", " ", "f", "o", "r", "m", "a", "t", " ", "'">>, call.b)

\* The call of the example in the documentation of calculate_business_days.
DocumentedCall ==
    /\ Returned("calculate_business_days")
    /\ call.a = PyStr(DateText(2024, 1, 15))
    /\ call.b = PyStr(DateText(2024, 1, 25))

\* C16: the documented example of calculate_business_days holds: for
\* start_date 2024-01-15 and end_date 2024-01-25 the operation returns
\* "Business days: 8, Calendar days: 10, Weekend days: 2 (from 2024-01-15 to
\* 2024-01-25)".
C16_DocumentedExample ==
    DocumentedCall =>
        Text = <<"B", "u", "s", "i", "n", "e", "s", "s", " ", "d", "a", "y", "s", ":", " ", "8", ",", " ", "C", "a", "l", "e", "n", "d", "a", "r", " ", "d", "a", "y", "s", ":", " ", "1", "0", ",", " ">> \o
               <<"W", "e", "e", "k", "e", "n", "d", " ", "d", "a", "y", "s", ":", " ", "2", " ">> \o
               <<"(", "f", "r", "o", "m", " ", "2", "0", "2", "4", "-", "0", "1", "-", "1", "5", " ", "t", "o", " ", "2", "0", "2", "4", "-", "0", "1", "-", "2", "5", ")">>

\* What the documented call returns: both endpoints are counted, which
\* makes 9 business days of 11 calendar days.
DocumentedCallCounts ==
    DocumentedCall =>
        Text = <<"B", "u", "s", "i", "n", "e", "s", "s", " ", "d", "a", "y", "s", ":", " ", "9", ",", " ", "C", "a", "l", "e", "n", "d", "a", "r", " ", "d", "a", "y", "s", ":", " ", "1", "1", ",", " ">> \o
               <<"W", "e", "e", "k", "e", "n", "d", " ", "d", "a", "y", "s", ":", " ", "2", " ">> \o
               <<"(", "f", "r", "o", "m", " ", "2", "0", "2", "4", "-", "0", "1", "-", "1", "5", " ", "t", "o", " ", "2", "0", "2", "4", "-", "0", "1", "-", "2", "5", ")">>

\* Days since Saturday 2024-02-24, and a range whose every date is a
\* Saturday or a Sunday.
Saturday == ymd2ord(2024, 2, 24)
IsWeekendDay(ord) == ((ord - Saturday) % 7) \in {0, 1}
AllWeekend == \A d \in DateA.ord..DateB.ord : IsWeekendDay(d)

\* C17: a range made only of weekend days has zero business days:
\* calculate_business_days returns business days = 0 exactly when every date
\* from start_date to end_date inclusive is a Saturday or Sunday (a single
\* Saturday, a single Sunday, or a Saturday-Sunday pair), and then weekend
\* days = calendar days.
C17_WeekendOnly ==
    Returned("calculate_business_days") /\ DatesInOrder =>
        /\ (CountsReturned /\ result.business_days = 0) <=> AllWeekend
        /\ AllWeekend =>
              /\ result.weekend_days = result.calendar_days
              /\ \/ DateA.ord = DateB.ord
                 \/ DateB.ord = DateA.ord + 1 /\ ((DateA.ord - Saturday) % 7) = 0

\* The Saturday-Sunday pair 2024-02-24, 2024-02-25 has been counted: no
\* business day, 2 weekend days.
C17_Witness ==
    /\ Returned("calculate_business_days")
    /\ DateA.ok /\ DateA.ord = Saturday
    /\ DateB.ok /\ DateB.ord = Saturday + 1
    /\ result.business_days = 0
    /\ result.weekend_days = 2

\* The Gregorian calendar as the claim states it: the leap years, the length
\* of a month, the day after a day <<year, month, day>>.
GregorianLeap(year) == (year % 4 = 0 /\ year % 100 # 0) \/ year % 400 = 0
GregorianMonthLength(year, month) ==
    IF month = 2 THEN (IF GregorianLeap(year) THEN 29 ELSE 28)
    ELSE IF month \in {4, 6, 9, 11} THEN 30 ELSE 31
DayAfter(x) ==
    IF x[3] < GregorianMonthLength(x[1], x[2]) THEN <<x[1], x[2], x[3] + 1>>
    ELSE IF x[2] < 12 THEN <<x[1], x[2] + 1, 1>>
    ELSE <<x[1] + 1, 1, 1>>

\* The days a step is taken from, and the years whose 29 February is tried.
StepDays == (WindowDays \cup {<<1, 1, 1>>, <<9999, 12, 30>>, <<2023, 2, 28>>})
FebruaryYears == {1900, 2023, 2024}

DateArg(x) == PyStr(DateText(x[1], x[2], x[3]))
MidnightArg(x) == PyStr(DateTimeText(x[1], x[2], x[3], 0, 0, 0))

\* The first argument is answered with its format message.
FirstFormatError ==
    result.kind \in {"Error: Invalid start_datetime format",
                     "Error: Invalid start_date format",
                     "Error: Invalid event_date format"}

\* The days of the range that are not a Saturday or a Sunday.
WorkingDays == Cardinality({d \in DateA.ord..DateB.ord : ~IsWeekendDay(d)})

Alone(c) ==
    CASE c.op = "calculate_timeline_duration" -> calculate_timeline_duration(c.a, c.b)
      [] c.op = "calculate_business_days" -> calculate_business_days(c.a, c.b)
      [] OTHER -> check_policy_compliance(c.a, c.b, c.c)

\* C19: two calls with identical inputs return identical strings, whatever
\* other calls happened before or between them: a call that has its string
\* has the string that any earlier call with these arguments returned.
C19_Idempotent ==
    \A thread \in Threads :
        threads[thread].at = "done" /\ threads[thread].call = earlier.call =>
            Render(threads[thread].call, threads[thread].result)
                = Render(earlier.call, earlier.result)

\* A range has been counted a second time, after the range of another call
\* was counted in the frame of another caller.
C19_Witness ==
    \E thread \in Threads : \E other \in Threads :
        /\ threads[thread].at = "done"
        /\ threads[thread].call = earlier.call
        /\ threads[thread].result.kind = "Business days"
        /\ threads[thread].result.business_days = 1
        /\ other # thread
        /\ locals[FrameOf(other)].end_dt = MaxOrdinal

\* C20: concurrent calls do not interfere: under every interleaving of the
\* steps of the calls in progress, the day-by-day loop of
\* calculate_business_days included, each call returns the string it
\* returns when run alone.
C20_NoInterference ==
    \A thread \in Threads :
        threads[thread].at = "done" =>
            Render(threads[thread].call, threads[thread].result)
                = Render(threads[thread].call, Alone(threads[thread].call))

\* A call has counted its range while another call was inside its loop on
\* another range.
C20_Witness ==
    \E thread \in Threads : \E other \in Threads :
        /\ thread # other
        /\ threads[thread].at = "done"
        /\ threads[thread].result.kind = "Business days"
        /\ threads[other].at = "advance"
        /\ threads[other].call # threads[thread].call

\* The dates of start..end that fall Monday-Friday, and those that fall on
\* a Saturday or Sunday.
WeekdaysIn(start, end) == Cardinality({d \in start..end : ~IsWeekendDay(d)})
WeekendsIn(start, end) == Cardinality({d \in start..end : IsWeekendDay(d)})

\* The thread is in calculate_business_days, past the checks.
Scanning(thread) == threads[thread].at \in {"while", "if", "advance", "after"}

\* What holds of the scan while it runs: current_date goes from start_dt up
\* by one day per iteration, never past end_dt + 1, business_days is the
\* number of Monday-Friday dates visited so far, and the loop is left with
\* current_date = end_dt + 1, after calendar_days iterations.
ScanVisits ==
    \A thread \in Threads :
        LET f == Frame(thread)
        IN  /\ Scanning(thread) =>
                  /\ f.start_dt <= f.current_date
                  /\ f.current_date <= f.end_dt + 1
            /\ threads[thread].at \in {"while", "if", "after"} =>
                  f.business_days = WeekdaysIn(f.start_dt, f.current_date - 1)
            /\ threads[thread].at \in {"if", "advance"} => f.current_date <= f.end_dt
            /\ threads[thread].at = "advance" =>
                  f.business_days = WeekdaysIn(f.start_dt, f.current_date)
            /\ threads[thread].at = "after" =>
                  /\ f.current_date = f.end_dt + 1
                  /\ f.current_date - f.start_dt = f.calendar_days

\* A call of calculate_business_days on a valid date pair in order has
\* ended.
Scanned(thread) ==
    /\ threads[thread].at = "done"
    /\ threads[thread].call.op = "calculate_business_days"
    /\ BusinessEntry(threads[thread].call.a, threads[thread].call.b).ok

\* C21: the day-by-day scan of calculate_business_days visits every date
\* from start_date to end_date inclusive exactly once, in increasing order,
\* and terminates after exactly calendar_days iterations; business_days is
\* the number of visited dates that fall Monday-Friday and weekend_days
\* (computed by subtraction) equals the number of visited dates that fall on
\* Saturday or Sunday.
C21_ScanCounts ==
    /\ ScanVisits
    /\ \A thread \in Threads :
          Scanned(thread) =>
              LET f == Frame(thread)
                  r == threads[thread].result
              IN  /\ r.kind = "Business days"
                  /\ r.calendar_days = (f.end_dt - f.start_dt) + 1
                  /\ r.business_days = WeekdaysIn(f.start_dt, f.end_dt)
                  /\ r.weekend_days = WeekendsIn(f.start_dt, f.end_dt)

\* The counts of every scan that ends before date.max.
ScanCountsInCalendar ==
    \A thread \in Threads :
        Scanned(thread) /\ Frame(thread).end_dt < MaxOrdinal =>
            LET f == Frame(thread)
                r == threads[thread].result
            IN  /\ r.kind = "Business days"
                /\ r.calendar_days = (f.end_dt - f.start_dt) + 1
                /\ r.business_days = WeekdaysIn(f.start_dt, f.end_dt)
                /\ r.weekend_days = WeekendsIn(f.start_dt, f.end_dt)

\* Monday = 0 .. Sunday = 6, counted from Saturday 2024-02-24.
WeekdayOf(ord) == ((ord - Saturday) + 5) % 7

\* The closed form: 5 business days for each whole week of the n days, and
\* the Monday-Friday days among the (n mod 7) days that start on the weekday w.
ClosedForm(w, n) ==
    5 * (n \div 7) + Cardinality({k \in 0..((n % 7) - 1) : (w + k) % 7 < 5})

\* The end dates 7 days after the end of this call.
WeekLater(later_end) ==
    LET e == Parsed(later_end, DateFormat) IN e.ok /\ e.ord = DateB.ord + 7

\* C22: the scan of calculate_business_days agrees with the closed form for
\* every start weekday and range length n >= 1: business_days =
\* 5 * (n div 7) + the number of Monday-Friday days among the first (n mod 7)
\* days starting at start_date's weekday; and extending end_date by 7 days
\* adds exactly 5 business days and 2 weekend days.
C22_ClosedForm ==
    Returned("calculate_business_days") /\ DatesInOrder =>
        /\ CountsReturned
        /\ result.business_days =
              ClosedForm(WeekdayOf(DateA.ord), (DateB.ord - DateA.ord) + 1)
        /\ \A later_end \in {x \in DateInputs : WeekLater(x)} :
              LET later == calculate_business_days(call.a, later_end)
              IN  /\ later.kind = "Business days"
                  /\ later.business_days = result.business_days + 5
                  /\ later.weekend_days = result.weekend_days + 2

\* The closed form on every range for which counts are returned.
ClosedFormInCalendar ==
    Returned("calculate_business_days") /\ CountsReturned =>
        /\ result.business_days =
              ClosedForm(WeekdayOf(DateA.ord), (DateB.ord - DateA.ord) + 1)
        /\ \A later_end \in {x \in DateInputs : WeekLater(x)} :
              LET later == calculate_business_days(call.a, later_end)
              IN  later.kind = "Business days" =>
                      /\ later.business_days = result.business_days + 5
                      /\ later.weekend_days = result.weekend_days + 2

\* A range of more than a week has been counted, and a range whose end is
\* then moved by 7 days.
LongRangeCounted ==
    /\ Returned("calculate_business_days") /\ CountsReturned
    /\ DateB.ord - DateA.ord >= 7
    /\ result.business_days > 5

WeekAdded ==
    /\ Returned("calculate_business_days") /\ CountsReturned
    /\ \E x \in DateInputs :
          WeekLater(x) /\ calculate_business_days(call.a, x).kind = "Business days"

\* The place of an outcome in the order INVALID, COMPLIANT, NON-COMPLIANT.
Rank(kind) ==
    CASE kind = "INVALID" -> 0
      [] kind = "COMPLIANT" -> 1
      [] kind = "NON-COMPLIANT" -> 2
      [] OTHER -> -1

\* The event dates not before the one of this call, and the valid deadlines
\* not below the one of this call.
LaterEvents ==
    {x \in DateInputs : Parsed(x, DateFormat).ok /\ Parsed(x, DateFormat).ord >= DateA.ord}
HigherDeadlines ==
    {x \in DeadlineInputs :
        x.t # "none" /\ int(x).exc = "" /\ int(x).n >= Deadline}

\* C23: for a fixed reference_date and a fixed valid deadline_days the
\* outcome of check_policy_compliance is monotone in event_date: as
\* event_date moves later the outcome passes through INVALID, then
\* COMPLIANT, then NON-COMPLIANT and never goes back; and for a fixed
\* event/reference pair, raising deadline_days never turns a COMPLIANT
\* result into NON-COMPLIANT and never changes an INVALID result.
C23_Monotone ==
    Returned("check_policy_compliance") /\ ComplianceValid =>
        /\ Rank(result.kind) >= 0
        /\ \A later_event \in LaterEvents :
              Rank(check_policy_compliance(later_event, call.b, call.c).kind)
                  >= Rank(result.kind)
        /\ \A higher \in HigherDeadlines :
              LET raised == check_policy_compliance(call.a, call.b, higher)
              IN  /\ result.kind = "COMPLIANT" => raised.kind = "COMPLIANT"
                  /\ result.kind = "INVALID" =>
                        Render(call, raised) = Render(call, result)

\* A COMPLIANT call for which a later event date is NON-COMPLIANT and a
\* higher deadline is among the inputs.
C23_Witness ==
    /\ Returned("check_policy_compliance") /\ ComplianceValid
    /\ result.kind = "COMPLIANT"
    /\ \E later_event \in LaterEvents :
          check_policy_compliance(later_event, call.b, call.c).kind = "NON-COMPLIANT"
    /\ \E higher \in HigherDeadlines : int(higher).n > Deadline

\* A str of whitespace only.
Blanks(x) ==
    x.t = "str" /\ x.s # <<>> /\ \A j \in 1..Len(x.s) : x.s[j] \in Whitespace

\* The dates and timestamps written with whitespace around them, each with
\* the same value written without.
PaddedValues ==
    {[padded |-> PyStr(<<" ">> \o DateText(2024, 2, 29) \o <<"\t">>),
      plain |-> PyStr(DateText(2024, 2, 29))],
     [padded |-> PyStr(<<"\t">> \o DateTimeText(2024, 2, 29, 9, 30, 54) \o <<" ">>),
      plain |-> PyStr(DateTimeText(2024, 2, 29, 9, 30, 54))]}

\* The second argument is answered with its format message.
SecondFormatError ==
    result.kind \in {"Error: Invalid end_datetime format",
                     "Error: Invalid end_date format",
                     "Error: Invalid reference_date format"}

\* The first argument parses in the format of the operation.
FirstParses == IF call.op = "calculate_timeline_duration" THEN StampA.ok ELSE DateA.ok

\* C24: an input that is non-empty but consists only of whitespace is not
\* treated as missing: in all three operations it passes the presence check
\* and is reported as a format error for that field, while a valid date
\* surrounded by leading/trailing whitespace is stripped before parsing and
\* yields the same counts/classification as the unpadded value.
C24_Whitespace ==
    pc = "returned" /\ (call.op = "check_policy_compliance" => DeadlineValid) =>
        /\ Blanks(call.a) /\ Truthy(call.b) => FirstFormatError
        /\ FirstParses /\ Blanks(call.b) => SecondFormatError
        /\ \A v \in PaddedValues :
              /\ call.a = v.padded => result = Alone([call EXCEPT !.a = v.plain])
              /\ call.b = v.padded => result = Alone([call EXCEPT !.b = v.plain])

\* A date with whitespace around it has been counted, and a timestamp with
\* whitespace around it has been measured.
C24_Witness ==
    /\ pc = "returned"
    /\ \E v \in PaddedValues : call.b = v.padded
    /\ result.kind \in {"Business days", "Duration"}
    /\ result.calendar_days > 1 \/ result.total_hours > 0

\* Whitespace alone in either field has been answered with the format
\* message of the field.
BlanksAnswered ==
    /\ pc = "returned"
    /\ \/ Blanks(call.a) /\ FirstFormatError
       \/ Blanks(call.b) /\ SecondFormatError

\* The timestamp of midnight of a date argument.
MidnightOf(x) == PyStr(strip(x.s) \o <<" ">> \o TimeText(0, 0, 0))

\* The deadlines that pass validation.
ValidDeadlines ==
    {x \in DeadlineInputs : x.t # "none" /\ int(x).exc = "" /\ int(x).n >= 0}

\* The days elapsed that check_policy_compliance and
\* calculate_timeline_duration report for the date pair of this call are
\* both equal to days.
ElapsedAgrees(days) ==
    /\ \A deadline \in ValidDeadlines :
          LET compliance == check_policy_compliance(call.b, call.a, deadline)
          IN  /\ compliance.kind \in {"COMPLIANT", "NON-COMPLIANT"}
              /\ compliance.days_difference = days
    /\ LET duration == calculate_timeline_duration(MidnightOf(call.a), MidnightOf(call.b))
       IN  /\ duration.kind = "Duration"
           /\ duration.days = days
           /\ duration.hours = 0 /\ duration.minutes = 0

\* C25: the three operations agree on the same pair of dates d1 <= d2: the
\* calendar_days of calculate_business_days(d1, d2) equals the days elapsed
\* reported by check_policy_compliance(event = d2, reference = d1, any valid
\* deadline) plus 1, and that elapsed value equals the days field of
\* calculate_timeline_duration between midnight of d1 and midnight of d2
\* (with hours = minutes = 0).
C25_OperationsAgree ==
    Returned("calculate_business_days") /\ DatesInOrder =>
        /\ CountsReturned
        /\ ElapsedAgrees(result.calendar_days - 1)

\* The agreement wherever calculate_business_days returns counts, and of
\* the other two operations with each other on every pair.
OperationsAgreeInCalendar ==
    Returned("calculate_business_days") /\ DatesInOrder =>
        /\ CountsReturned => ElapsedAgrees(result.calendar_days - 1)
        /\ ElapsedAgrees(DateB.ord - DateA.ord)

(***************************************************************************)
(* extract_claim_dates                                                      *)
(***************************************************************************)
\* The values of the returned dictionary that hold a date.
DateKeys == {"incident_date", "claim_filed_date", "policy_effective_date", "policy_expiry_date"}
Extracted == pc = "returned" /\ call.op = "extract_claim_dates"
\* Every group of every match in the document is text its pattern captures.
SearchesCaptured ==
    call.op = "extract_claim_dates" =>
        \A field \in DOMAIN call.text : \A k \in DOMAIN call.text[field] :
            LET search == call.text[field][k]
            IN  search.found =>
                    /\ DateCapture(search.date)
                    /\ search.time # PyNone => TimeCapture(search.time.s)

\* The searches a key of the dictionary is filled from.
Sources(key) ==
    CASE key = "incident_date" -> call.text.incident_time \o call.text.incident
      [] key = "claim_filed_date" -> call.text.filed_time \o call.text.filed
      [] key = "policy_effective_date" -> call.text.effective
      [] OTHER -> call.text.expiry
\* calculate_timeline_duration reads value as a datetime.
Accepted(value) ==
    LET dt == strptime(strip(value.s), DateTimeFormat)
    IN  dt.ok /\ calculate_timeline_duration(value, value) = DurationResult(dt, dt)
\* The time of day a search is to carry: its time when it reads as one,
\* midnight otherwise.
TimeOf(search) ==
    LET parsed_time ==
            IF search.time = PyNone THEN NoTime ELSE strptime_time(strip(search.time.s))
    IN  IF parsed_time.ok THEN TimeText(parsed_time.hour, parsed_time.minute, 0)
        ELSE TimeText(0, 0, 0)

\* C26: every date extract_claim_dates returns that is not None is a
\* 'YYYY-MM-DD HH:MM:SS' string that calculate_timeline_duration accepts.
C26_AcceptedFormat ==
    Extracted =>
        \A key \in DateKeys : result[key] # PyNone => Accepted(result[key])

\* C26, in the part that holds: a returned date comes from a match that is a
\* real calendar date, ends in the time of that match (midnight when it has
\* none or one that does not read), and is accepted when its year has four
\* digits or the C library pads it.
AcceptedFromYear1000 ==
    Extracted =>
        \A key \in DateKeys :
            result[key] # PyNone =>
                \E k \in DOMAIN Sources(key) :
                    LET search == Sources(key)[k]
                        parsed_date == strptime_date(strip(search.date))
                        value == result[key].s
                    IN  /\ search.found /\ parsed_date.ok
                        /\ SubSeq(value, Len(value) - 8, Len(value)) = <<" ">> \o TimeOf(search)
                        /\ (call.pads \/ parsed_date.year >= 1000) => Accepted(result[key])
\* A match that is no real calendar date is never the only one of a returned
\* value: with only such matches the key stays None.
UnrealDatesDropped ==
    Extracted =>
        \A key \in DateKeys :
            (\A k \in DOMAIN Sources(key) :
                 Sources(key)[k].found => ~strptime_date(strip(Sources(key)[k].date)).ok)
                => result[key] = PyNone
\* Cases of C26 that are returned: a date with its time, a date whose time
\* does not read, a date of a year before 1000.
TimeCarried ==
    /\ Extracted
    /\ result.incident_date = PyStr(DateText(2024, 3, 11) \o <<" ">> \o TimeText(2, 47, 0))
MidnightForUnreadTime ==
    /\ Extracted
    /\ call.text.incident_time[1] = Groups(ReadableDate(1), PyStr(<<"2", ":", "4", "7", "A", "M">>))
    /\ result.incident_date = PyStr(DateText(2024, 3, 11) \o <<" ">> \o TimeText(0, 0, 0))
EarlyYearReturned ==
    /\ Extracted
    /\ ~call.pads
    /\ result.policy_expiry_date = PyStr(<<"9", "9", "9", "-", "0", "3", "-", "1", "2", " ", "0", "0", ":", "0", "0", ":", "0", "0">>)

\* The conversion of what a pattern found.
Converted(search) ==
    IF search.found THEN convert_to_iso_datetime(search.date, search.time, call.pads)
    ELSE NoValue
\* The patterns of a key, in the order they are tried in, whose match
\* converts and that no converting match precedes.
Winners(key) ==
    {k \in DOMAIN Sources(key) :
        /\ Converted(Sources(key)[k]).iso # PyNone
        /\ \A j \in 1..(k - 1) : Converted(Sources(key)[j]).iso = PyNone}
\* The key of the display text that goes with a date.
DisplayKey(key) ==
    IF key = "incident_date" THEN "incident_date_display" ELSE "claim_filed_date_display"

\* C27: each date of the dictionary is the conversion of the first pattern,
\* time-bearing patterns before date-only ones, whose match converts (a
\* match that fails conversion is passed over) and None when there is none;
\* incident_date and claim_filed_date are None exactly when their display
\* texts are, and carry the display text of the same match.
C27_FirstConvertibleWins ==
    Extracted =>
        /\ \A key \in DateKeys :
               IF Winners(key) = {} THEN result[key] = PyNone
               ELSE \A k \in Winners(key) : result[key] = Converted(Sources(key)[k]).iso
        /\ \A key \in {"incident_date", "claim_filed_date"} :
               /\ result[key] = PyNone <=> result[DisplayKey(key)] = PyNone
               /\ \A k \in Winners(key) :
                      result[DisplayKey(key)] = Converted(Sources(key)[k]).display
\* The first time-bearing pattern matches a date that does not convert, the
\* second one converts, a date-only pattern converts too: the value is the
\* second time-bearing pattern's, with its display text.
C27_Witness ==
    /\ Extracted
    /\ call.text.incident_time[1].found
    /\ Converted(call.text.incident_time[1]).iso = PyNone
    /\ Converted(call.text.incident_time[2]).iso # PyNone
    /\ Converted(call.text.incident[1]).iso # PyNone
    /\ result.incident_date = Converted(call.text.incident_time[2]).iso
    /\ result.incident_date # Converted(call.text.incident[1]).iso
    /\ result.incident_date_display = Converted(call.text.incident_time[2]).display
\* No time-bearing pattern gives a value and the first date-only match does
\* not convert: a later date-only pattern gives the value.
LaterPatternWins ==
    /\ Extracted
    /\ \A k \in 1..3 : Converted(call.text.filed_time[k]).iso = PyNone
    /\ call.text.filed[1].found
    /\ Converted(call.text.filed[1]).iso = PyNone
    /\ result.claim_filed_date = Converted(call.text.filed[2]).iso
    /\ result.claim_filed_date # PyNone

(***************************************************************************)
(* OrchestratorAgent                                                        *)
(***************************************************************************)
ClassifyCalled == call.op = "classify_question"
RunCalled == call.op = "run"
\* The model replied with a str.
Replied == (ClassifyCalled \/ RunCalled) /\ ~call.llm.raises /\ call.llm.value.t = "str"
\* response_text starts with 1, 2 or 3.
StartsWithNumber(response_text) == \E digit \in {"1", "2", "3"} : startswith(response_text, digit)
\* run asks each expert exactly on its classification and never two.
RoutedByClassification ==
    /\ Len(agent.experts) <= 1
    /\ agent.experts = <<"specific_task_expert">> <=> agent.classification = 1
    /\ agent.experts = <<"summarization_expert">> <=> agent.classification = 2
    /\ agent.experts = <<>> <=> agent.classification = 3

\* C28: classify_question always returns a classification in {1, 2, 3}: 3
\* when the model's reply does not start with 1, 2 or 3, 3 when the model
\* call raises; run asks the Specific Task Expert exactly on 1, the
\* Summarization Expert exactly on 2, no expert on 3, and never raises: it
\* returns an error string instead.
C28_ClassifiesAndRoutes ==
    /\ ClassifyCalled =>
           /\ agent.at = "classified" /\ agent.classification \in {1, 2, 3}
           /\ (Replied /\ ~StartsWithNumber(call.llm.value.s)) => agent.classification = 3
           /\ call.llm.raises => agent.classification = 3
    /\ RunCalled => (agent.at = "returned" /\ RoutedByClassification)

\* C28 as the code has it: the reply is stripped before it is tested, and
\* only exceptions derived from Exception are caught. classify_question
\* returns a classification in {1, 2, 3} (3 when the stripped reply does not
\* start with 1, 2 or 3, 3 when the model call raises an Exception) unless
\* the model call raises outside Exception, which propagates; run asks the
\* expert of the classification, at most one, and returns a string unless
\* the model or the expert it asks raises outside Exception.
C28_ClassifiesAndRoutesCaught ==
    /\ ClassifyCalled =>
           /\ agent.at = "raised" <=> (call.llm.raises /\ ~call.llm.exception.derived)
           /\ agent.at # "raised" =>
                  /\ agent.at = "classified" /\ agent.classification \in {1, 2, 3}
                  /\ (Replied /\ ~StartsWithNumber(strip(call.llm.value.s)))
                         => agent.classification = 3
                  /\ (Replied /\ StartsWithNumber(strip(call.llm.value.s)))
                         => startswith(strip(call.llm.value.s), IntText(agent.classification)[1])
                  /\ ~Replied => agent.classification = 3
    /\ RunCalled =>
           LET interrupted ==
                   \/ call.llm.raises /\ ~call.llm.exception.derived
                   \/ /\ agent.experts # <<>>
                      /\ call.expert.raises /\ ~call.expert.exception.derived
           IN  /\ agent.at = "raised" <=> interrupted
               /\ agent.at # "raised" =>
                      /\ agent.at = "returned"
                      /\ agent.output.kind \in {"result", "error"}
               /\ ~(call.llm.raises /\ ~call.llm.exception.derived) => RoutedByClassification
               /\ agent.output.kind = "result" =>
                      agent.output.classification = agent.classification
\* run sent a question of type 1 to the Specific Task Expert, whose answer
\* is in the returned string.
C28_Witness ==
    /\ RunCalled
    /\ agent.at = "returned"
    /\ agent.classification = 1
    /\ agent.experts = <<"specific_task_expert">>
    /\ agent.output.kind = "result"
    /\ agent.output.response # <<>>
\* Cases of C28 that happen: a reply with a space before its number, a model
\* call interrupted from the keyboard, an expert that fails, an unclear
\* reply.
PaddedReplyClassified ==
    /\ ClassifyCalled /\ Replied
    /\ ~StartsWithNumber(call.llm.value.s)
    /\ agent.classification = 2
RunInterrupted ==
    /\ RunCalled
    /\ call.llm.raises /\ call.llm.exception.class = "KeyboardInterrupt"
    /\ agent.at = "raised"
ExpertFailureReturned ==
    /\ RunCalled
    /\ agent.experts = <<"summarization_expert">>
    /\ call.expert.raises /\ call.expert.exception.derived
    /\ agent.output.kind = "error"
UnclearReplyNotRouted ==
    /\ RunCalled /\ Replied
    /\ ~StartsWithNumber(strip(call.llm.value.s))
    /\ agent.classification = 3 /\ agent.experts = <<>>
    /\ agent.output.kind = "result"

(***************************************************************************)
(* get_claim_retriever                                                      *)
(***************************************************************************)
\* The call of get_claim_retriever that came last.
Last == calls.last
Called == Last.branch # "none"
\* A retriever was cached when the last call was made: the instance the
\* global held had one.
WasCached == Last.before # NoInstance /\ Last.before.retriever # 0
\* A call before the last one had built a retriever.
BuiltBefore ==
    calls.retrievers > (IF Last.outcome = "returned" /\ Last.branch # "cached" THEN 1 ELSE 0)

\* C29: once a call has built a retriever, every later call with
\* rebuild=False returns the cached retriever and neither constructs a
\* HierarchicalClaimRetriever nor runs build_all; a call with rebuild=True
\* always replaces the global instance and builds with force_rebuild=True.
C29_Singleton ==
    Called =>
        /\ (BuiltBefore /\ ~Last.rebuild) =>
               /\ Last.outcome = "returned" /\ Last.value = Last.before.retriever
               /\ ~Last.constructed /\ Last.build_all = "none"
        /\ Last.rebuild =>
               /\ global_retriever_instance.id # Last.before.id
               /\ Last.build_all = "force"

\* C29 as the code has it: a call with rebuild=False made while the global
\* instance holds a retriever returns that retriever, constructs nothing,
\* runs no build_all and leaves the instance alone; a retriever a call
\* returns is the one the global instance holds after it; a call with
\* rebuild=True whose constructor returns replaces the global instance and
\* builds it with force_rebuild=True, one whose constructor raises leaves
\* the global instance as it was.
C29_SingletonWhileCached ==
    Called =>
        /\ (WasCached /\ ~Last.rebuild) =>
               /\ Last.branch = "cached"
               /\ Last.outcome = "returned" /\ Last.value = Last.before.retriever
               /\ ~Last.constructed /\ Last.build_all = "none"
               /\ global_retriever_instance = Last.before
        /\ Last.outcome = "returned" =>
               /\ Last.value # 0
               /\ global_retriever_instance.retriever = Last.value
        /\ Last.rebuild =>
               /\ Last.branch = "new"
               /\ Last.constructed =>
                      /\ global_retriever_instance.id = calls.instances
                      /\ global_retriever_instance.id # Last.before.id
                      /\ global_retriever_instance.pdf_path = Last.pdf_path
                      /\ global_retriever_instance.use_chromadb = Last.use_chromadb
                      /\ Last.build_all = "force"
                      /\ Last.on.id = global_retriever_instance.id
               /\ ~Last.constructed =>
                      /\ global_retriever_instance = Last.before
                      /\ Last.build_all = "none" /\ Last.outcome = "raised"
\* The first instance was built and held its retriever, and the third call,
\* with rebuild=True, replaced it by a second instance built with
\* force_rebuild=True.
C29_Witness ==
    /\ calls.count = 3
    /\ Last.rebuild /\ Last.constructed /\ Last.build_all = "force"
    /\ WasCached
    /\ Last.before.id = 1 /\ Last.before.retriever = 1
    /\ global_retriever_instance.id = 2
\* Cases of C29 that happen: a call from the cache; a rebuild whose
\* constructor raises and leaves the cached retriever; a rebuild whose build
\* raises, so that the next call with rebuild=False builds again.
ServedFromCache ==
    /\ Last.branch = "cached" /\ ~Last.rebuild
    /\ Last.value = 1 /\ global_retriever_instance.retriever = 1
RebuildNotConstructed ==
    /\ Last.rebuild /\ ~Last.constructed
    /\ WasCached /\ global_retriever_instance = Last.before
BuiltAgainAfterFailedRebuild ==
    /\ calls.count = 3
    /\ ~Last.rebuild /\ Last.branch = "existing"
    /\ BuiltBefore
    /\ Last.before.id = 2

\* C30: the global instance is assigned before build_all runs. When
\* build_all raises in a call that constructed an instance, the global is
\* that instance with retriever = None; a call with rebuild=False that finds
\* such an instance runs build_all(force_rebuild=False) on it, constructs
\* nothing and leaves its pdf_path and use_chromadb as they were, whatever
\* the call passes; so does every return from the cache.
C30_AssignedBeforeBuild ==
    Called =>
        /\ (Last.constructed /\ Last.outcome = "raised") =>
               /\ global_retriever_instance # NoInstance
               /\ global_retriever_instance.id = calls.instances
               /\ global_retriever_instance.pdf_path = Last.pdf_path
               /\ global_retriever_instance.use_chromadb = Last.use_chromadb
               /\ global_retriever_instance.retriever = 0
        /\ (~Last.rebuild /\ Last.before # NoInstance /\ Last.before.retriever = 0) =>
               /\ Last.branch = "existing"
               /\ ~Last.constructed
               /\ Last.build_all = "plain" /\ Last.on = Last.before
               /\ global_retriever_instance.id = Last.before.id
               /\ global_retriever_instance.pdf_path = Last.before.pdf_path
               /\ global_retriever_instance.use_chromadb = Last.before.use_chromadb
        /\ Last.branch = "cached" =>
               /\ global_retriever_instance = Last.before
               /\ Last.value = Last.before.retriever
\* The first call constructed an instance for one PDF and its build raised;
\* the second call, with rebuild=False and another PDF and storage, built
\* the retriever on the first call's instance.
C30_Witness ==
    /\ calls.count = 2
    /\ ~Last.rebuild /\ Last.branch = "existing"
    /\ Last.before.id = 1 /\ Last.before.retriever = 0
    /\ Last.pdf_path # Last.before.pdf_path
    /\ Last.use_chromadb # Last.before.use_chromadb
    /\ Last.outcome = "returned"
    /\ global_retriever_instance.id = 1
    /\ global_retriever_instance.pdf_path = Last.before.pdf_path
    /\ global_retriever_instance.retriever = Last.value
\* After such a build a third call with other arguments is served from the
\* cache of the first call's instance.
CachedIgnoresArguments ==
    /\ calls.count = 3
    /\ Last.branch = "cached"
    /\ calls.instances = 1
    /\ Last.pdf_path # global_retriever_instance.pdf_path
    /\ Last.value = 1
\* The first call's build raised: the global holds its instance without a
\* retriever.
FirstBuildRaised ==
    /\ calls.count = 1
    /\ Last.constructed /\ Last.outcome = "raised"
    /\ global_retriever_instance.id = 1 /\ global_retriever_instance.retriever = 0

====
